---- MODULE Spec2Model ----
(***************************************************************************)
(* Model of sync_starship_ghostty_palette.py: the colour pipeline that     *)
(* derives a Starship palette from a Ghostty theme, the theme reader and   *)
(* the document rewriter.                                                  *)
(*                                                                         *)
(* Representation.  Texts are TLA+ strings, read character by character    *)
(* with SubSeq; their characters are those a TLA+ string can hold, U+0000  *)
(* to U+00FF, and on these the classes \s and \d and the line boundaries   *)
(* of splitlines() are the ones listed below.  Python floats are IEEE-754  *)
(* doubles, carried as sign, exponent and 53-bit significand, and every    *)
(* operation on them is correctly rounded (section Floats).  The two sRGB  *)
(* transfer functions are tabulated over doubles: LinearTable[c+1] is      *)
(* channel_to_linear(c), and EncodeThreshold[n] is the least double that   *)
(* linear_to_channel sends to n or above.  None is the string NoneVal.     *)
(***************************************************************************)
EXTENDS Integers, Sequences, FiniteSets, TLC

VARIABLES
  mode,        \* which entry point this behaviour exercises
  pc,          \* position inside that entry point
  stdout,      \* load_ghostty_config: the command's outcome and result.stdout
  parsed,      \* load_ghostty_config's result / build_starship_palette's argument
  base,        \* build_starship_palette: foreground, background, selection_background
  pre,         \* build_starship_palette: the seven accents before correction (l.210-216)
  accents,     \* build_starship_palette: the seven accents as corrected so far
  palette,     \* build_starship_palette's result
  bst,         \* boost_saturation_preserve_luminance: the search loop's locals
  bct,         \* best_contrast_text: arguments, unique_candidates, result
  ups,         \* update_palette_section: arguments and locals
  mn           \* main: template, command outcome, rendered text, output file

vars == <<mode, pc, stdout, parsed, base, pre, accents, palette, bst, bct, ups, mn>>

--------------------------------------------------------------------------
(* Characters and strings *)

NoneVal == "None"

Char(s, i) == SubSeq(s, i, i)

\* ch is one of the characters of the string class
InClass(ch, class) == \E i \in 1..Len(class) : Char(class, i) = ch

\* \s and str.strip(): space, \t, \n, \r, \f, then U+000B, U+001C to U+001F,
\* U+0085 and U+00A0
SpaceChars == " \t\n\r\f "
\* the characters at which str.splitlines() ends a line: \n, \r, \f, then
\* U+000B, U+001C to U+001E and U+0085
LineBreakChars == "\n\r\f"
\* \d, [0-9a-fA-F], [a-z0-9-], [A-Za-z0-9_] and ['"]
Digits == "0123456789"
HexChars == "0123456789abcdefABCDEF"
KeyChars == "abcdefghijklmnopqrstuvwxyz0123456789-"
WordChars == "ABCDEFGHIJKLMNOPQRSTUVWXYZabcdefghijklmnopqrstuvwxyz0123456789_"
QuoteChars == "'\""

IsSpace(ch) == InClass(ch, SpaceChars)

\* s without its first n characters
Rest(s, n) == SubSeq(s, n + 1, Len(s))

\* the length of the longest prefix of s whose characters are all in class
\* (member) or all outside it: one less than the first position that ends it
Span(s, class, member) ==
  (CHOOSE n \in 1..(Len(s) + 1) :
     /\ n > Len(s) \/ InClass(Char(s, n), class) # member
     /\ \A i \in 1..(n - 1) : InClass(Char(s, i), class) = member) - 1

PrefixLen(s, class) == Span(s, class, TRUE)

\* the length of the longest suffix of s made of characters of class
SuffixLen(s, class) ==
  (CHOOSE n \in 1..(Len(s) + 1) :
     /\ n > Len(s) \/ ~InClass(Char(s, Len(s) + 1 - n), class)
     /\ \A i \in 1..(n - 1) : InClass(Char(s, Len(s) + 1 - i), class)) - 1

LStrip(s) == Rest(s, PrefixLen(s, SpaceChars))

RStrip(s) == SubSeq(s, 1, Len(s) - SuffixLen(s, SpaceChars))

\* str.strip()
Strip(s) == RStrip(LStrip(s))

LowerHexDigits == "0123456789abcdef"
UpperHexDigits == "0123456789ABCDEF"


\* str.lower() on one character of a hex group
LowerChar(ch) ==
  IF \E i \in 11..16 : Char(UpperHexDigits, i) = ch
  THEN Char(LowerHexDigits, CHOOSE i \in 11..16 : Char(UpperHexDigits, i) = ch)
  ELSE ch

\* str.lower() on a hex group, half by half
RECURSIVE Lower(_)
Lower(s) ==
  IF Len(s) <= 1 THEN LowerChar(s)
  ELSE Lower(SubSeq(s, 1, Len(s) \div 2)) \o Lower(SubSeq(s, Len(s) \div 2 + 1, Len(s)))

AllInClass(s, class) == \A i \in 1..Len(s) : InClass(Char(s, i), class)

\* the text without a final "\n": $ holds at the end and before a final "\n"
Chomp(s) == IF Len(s) > 0 /\ Char(s, Len(s)) = "\n" THEN SubSeq(s, 1, Len(s) - 1) ELSE s

\* HEX_RE.match: ^#([0-9a-fA-F]{6})$
HEX_RE(s) ==
  Len(Chomp(s)) = 7 /\ Char(s, 1) = "#" /\ AllInClass(SubSeq(s, 2, 7), HexChars)

\* variant: the digits are not lowercased
normalize_hex_keepcase(value) ==
  LET s == Strip(value) IN IF HEX_RE(s) THEN s ELSE NoneVal

normalize_hex(value) ==
  LET s == Strip(value) IN IF HEX_RE(s) THEN "#" \o Lower(SubSeq(s, 2, 7)) ELSE NoneVal

\* int(ch, 16)
HexVal(ch) ==
  CHOOSE v \in 0..15 : Char(LowerHexDigits, v + 1) = ch \/ Char(UpperHexDigits, v + 1) = ch

\* value.lstrip("#")
LStripHash(s) == Rest(s, PrefixLen(s, "#"))

hex_to_rgb(value) ==
  LET raw == LStripHash(value)
      byte(i) == 16 * HexVal(Char(raw, i)) + HexVal(Char(raw, i + 1))
  IN  <<byte(1), byte(3), byte(5)>>

\* format(n, "x") for n >= 0
RECURSIVE HexStr(_)
HexStr(n) ==
  IF n < 16 THEN Char(LowerHexDigits, n + 1)
  ELSE HexStr(n \div 16) \o Char(LowerHexDigits, (n % 16) + 1)

\* format(n, "02x")
Hex02(n) ==
  IF n < 0 THEN "-" \o HexStr(0 - n)
  ELSE IF n < 16 THEN "0" \o HexStr(n) ELSE HexStr(n)

rgb_to_hex(rgb) == "#" \o Hex02(rgb[1]) \o Hex02(rgb[2]) \o Hex02(rgb[3])

--------------------------------------------------------------------------
(* Floats *)

\* A float is the IEEE-754 double the interpreter holds: [s, e, m] is the
\* value (-1)^s * m * 2^e.  The significand m has exactly 53 bits and is kept
\* as four limbs of 14 bits, least significant first; zero has m = Zero4.
\* Naturals wider than a significand are sequences of such limbs.  Every
\* operation returns the correctly rounded result (round to nearest, ties
\* to even), as the hardware does.

Limb == 16384
LimbBits == 14
SignificandBits == 53

Pow2Table == <<1, 2, 4, 8, 16, 32, 64, 128, 256, 512, 1024, 2048, 4096, 8192, 16384>>
Pow2(n) == Pow2Table[n + 1]

Zero4 == <<0, 0, 0, 0>>

Float(s, e, m) == [s |-> s, e |-> e, m |-> m]
FZero == Float(0, 0, Zero4)
IsZero(x) == x.m = Zero4

\* limb i, counted from 0, of the natural p
LimbAt(p, i) == IF i >= 0 /\ i < Len(p) THEN p[i + 1] ELSE 0

\* the number of bits of the limb n
BitLenSmall(n) == Cardinality({b \in 0..(LimbBits - 1) : n >= Pow2(b)})

\* the number of limbs of p up to its last limb that is not 0
TopLimbs(p) == Cardinality({i \in 1..Len(p) : \E j \in i..Len(p) : p[j] # 0})

BitLenTo(p, t) == IF t = 0 THEN 0 ELSE LimbBits * (t - 1) + BitLenSmall(p[t])

\* the number of bits of the natural p
BitLen(p) == BitLenTo(p, TopLimbs(p))

\* limb j of p \div 2^sh and of p * 2^sh
LimbShiftedRight(p, sh, j) ==
  LET q == sh \div LimbBits
      r == sh % LimbBits
  IN  LimbAt(p, j + q) \div Pow2(r) + (LimbAt(p, j + q + 1) % Pow2(r)) * Pow2(LimbBits - r)

LimbShiftedLeft(p, sh, j) ==
  LET q == sh \div LimbBits
      r == sh % LimbBits
  IN  (LimbAt(p, j - q) % Pow2(LimbBits - r)) * Pow2(r)
      + LimbAt(p, j - q - 1) \div Pow2(LimbBits - r)

ShiftRight4(p, sh) ==
  <<LimbShiftedRight(p, sh, 0), LimbShiftedRight(p, sh, 1),
    LimbShiftedRight(p, sh, 2), LimbShiftedRight(p, sh, 3)>>

ShiftLeft4(p, sh) ==
  <<LimbShiftedLeft(p, sh, 0), LimbShiftedLeft(p, sh, 1),
    LimbShiftedLeft(p, sh, 2), LimbShiftedLeft(p, sh, 3)>>

ShiftLeft8(p, sh) ==
  <<LimbShiftedLeft(p, sh, 0), LimbShiftedLeft(p, sh, 1),
    LimbShiftedLeft(p, sh, 2), LimbShiftedLeft(p, sh, 3),
    LimbShiftedLeft(p, sh, 4), LimbShiftedLeft(p, sh, 5),
    LimbShiftedLeft(p, sh, 6), LimbShiftedLeft(p, sh, 7)>>

\* bit i of p, and whether any bit below bit i is set
TestBit(p, i) == i >= 0 /\ (LimbAt(p, i \div LimbBits) \div Pow2(i % LimbBits)) % 2 = 1

LowBits(p, i) ==
  /\ i > 0
  /\ \/ \E j \in 0..(i \div LimbBits - 1) : LimbAt(p, j) # 0
     \/ LimbAt(p, i \div LimbBits) % Pow2(i % LimbBits) # 0

\* m + 1
Inc4(m) ==
  IF m[1] + 1 < Limb THEN <<m[1] + 1, m[2], m[3], m[4]>>
  ELSE IF m[2] + 1 < Limb THEN <<0, m[2] + 1, m[3], m[4]>>
  ELSE IF m[3] + 1 < Limb THEN <<0, 0, m[3] + 1, m[4]>>
  ELSE <<0, 0, 0, m[4] + 1>>

\* q, or q + 1 when the bits cut off are more than half a unit, or exactly
\* half and q is odd
Bump(q, half, more) == IF half /\ (more \/ q[1] % 2 = 1) THEN Inc4(q) ELSE q

\* p \div 2^sh rounded to nearest, ties to even, for sh > 0
Nearest(p, sh) == Bump(ShiftRight4(p, sh), TestBit(p, sh - 1), LowBits(p, sh - 1))

\* a rounded significand of 54 bits is 2^53, one exponent up
Carried(s, e, m) ==
  IF m[4] = 2048 THEN Float(s, e + 1, <<0, 0, 0, 1024>>) ELSE Float(s, e, m)

\* Round for p # 0 of bl bits
RoundBits(s, p, e, bl) ==
  IF bl <= SignificandBits
  THEN Float(s, e + bl - SignificandBits, ShiftLeft4(p, SignificandBits - bl))
  ELSE Carried(s, e + bl - SignificandBits, Nearest(p, bl - SignificandBits))

\* the double nearest to (-1)^s * p * 2^e
Round(s, p, e) ==
  IF \A i \in 1..Len(p) : p[i] = 0 THEN FZero ELSE RoundBits(s, p, e, BitLen(p))

\* whether limb i of a + b takes a carry: a limb below it overflows and
\* every limb between the two is full
CarryInto(a, b, i) ==
  \E j \in 1..(i - 1) : a[j] + b[j] >= Limb /\ \A k \in (j + 1)..(i - 1) : a[k] + b[k] = Limb - 1

\* whether limb i of a - b lends: a limb below it is short and every limb
\* between the two is level
BorrowFrom(a, b, i) ==
  \E j \in 1..(i - 1) : a[j] < b[j] /\ \A k \in (j + 1)..(i - 1) : a[k] = b[k]

\* the limbs of f as a sequence
Limbs(f, n) == SubSeq(f, 1, n)

\* a + b and a - b (for a >= b) on limbs; both keep the width of a
AddLimbs(a, b) ==
  Limbs([i \in 1..Len(a) |-> (a[i] + b[i] + IF CarryInto(a, b, i) THEN 1 ELSE 0) % Limb], Len(a))

SubLimbs(a, b) ==
  Limbs([i \in 1..Len(a) |-> (Limb + a[i] - b[i] - IF BorrowFrom(a, b, i) THEN 1 ELSE 0) % Limb],
        Len(a))

\* a * k for a of four limbs and a digit k: five limbs
MulLimbs(a, k) ==
  LET c0 == a[1] * k
      c1 == a[2] * k + c0 \div Limb
      c2 == a[3] * k + c1 \div Limb
      c3 == a[4] * k + c2 \div Limb
  IN  <<c0 % Limb, c1 % Limb, c2 % Limb, c3 % Limb, c3 \div Limb>>

\* -1 or 1 as a < b or a > b in limb i
CmpAt(a, b, i) == IF a[i] < b[i] THEN -1 ELSE 1

\* -1, 0 or 1 as a < b, a = b or a > b on their n limbs: the highest limb
\* that differs decides
CmpLimbs(a, b, n) ==
  IF \A i \in 1..n : a[i] = b[i] THEN 0
  ELSE CmpAt(a, b, CHOOSE i \in 1..n : a[i] # b[i] /\ \A j \in (i + 1)..n : a[j] = b[j])

\* the product of two significands
Mul8(a, b) ==
  LET c0 == a[1] * b[1]
      c1 == a[1] * b[2] + a[2] * b[1] + c0 \div Limb
      c2 == a[1] * b[3] + a[2] * b[2] + a[3] * b[1] + c1 \div Limb
      c3 == a[1] * b[4] + a[2] * b[3] + a[3] * b[2] + a[4] * b[1] + c2 \div Limb
      c4 == a[2] * b[4] + a[3] * b[3] + a[4] * b[2] + c3 \div Limb
      c5 == a[3] * b[4] + a[4] * b[3] + c4 \div Limb
      c6 == a[4] * b[4] + c5 \div Limb
  IN  <<c0 % Limb, c1 % Limb, c2 % Limb, c3 % Limb, c4 % Limb, c5 % Limb,
        c6 % Limb, c6 \div Limb>>

\* x * y
FMul(x, y) ==
  IF IsZero(x) \/ IsZero(y) THEN FZero
  ELSE Round((x.s + y.s) % 2, Mul8(x.m, y.m), x.e + y.e)

FNeg(x) == IF IsZero(x) THEN x ELSE [x EXCEPT !.s = 1 - x.s]

\* (-1)^sa * a + (-1)^sb * b, times 2^e, for naturals a and b of eight limbs
\* that compare as c
AddAligned(sa, a, sb, b, e, c) ==
  Round(IF sa = sb \/ c > 0 THEN sa ELSE sb,
        IF sa = sb THEN AddLimbs(a, b)
        ELSE IF c >= 0 THEN SubLimbs(a, b) ELSE SubLimbs(b, a),
        e)

\* big + small for big.e >= small.e: beyond 54 binary places the smaller
\* operand is below half a unit in the last place of the larger one
AddOrdered(big, small, a, b) ==
  IF big.e - small.e > 54 THEN big
  ELSE AddAligned(big.s, a, small.s, b, small.e, CmpLimbs(a, b, 8))

\* x + y
FAdd(x, y) ==
  IF IsZero(x) THEN y
  ELSE IF IsZero(y) THEN x
  ELSE IF x.e >= y.e THEN AddOrdered(x, y, ShiftLeft8(x.m, x.e - y.e), y.m \o Zero4)
  ELSE AddOrdered(y, x, ShiftLeft8(y.m, y.e - x.e), x.m \o Zero4)

\* x - y
FSub(x, y) == FAdd(x, FNeg(y))

\* the digit q of a division step, put below the digits so far, and what it
\* leaves of r5
Taken(r5, d, q, digits) ==
  [digits |-> <<q>> \o digits, r |-> SubSeq(SubLimbs(r5, MulLimbs(d, q)), 1, 4)]

\* d * q <= r5
Fits(r5, d, q) == q >= 0 /\ CmpLimbs(MulLimbs(d, q), r5, 5) <= 0

\* the estimate from the leading limbs is at most two too large
Digit(r5, d, est, digits) ==
  Taken(r5, d, IF Fits(r5, d, est) THEN est ELSE IF Fits(r5, d, est - 1) THEN est - 1 ELSE est - 2,
        digits)

AtMost(n, cap) == IF n > cap THEN cap ELSE n

\* one digit of the long division of st.r * Limb by d, for st.r < d and d of
\* 56 bits
DivStep(st, d) ==
  Digit(<<0>> \o st.r, d, AtMost((st.r[4] * Limb + st.r[3]) \div d[4], Limb - 1), st.digits)

\* the leading bit of n / d for n < 2 * d
DivStart(n, d) ==
  IF CmpLimbs(n, d, 4) >= 0 THEN [digits |-> <<1, 0, 0>>, r |-> SubLimbs(n, d)]
  ELSE [digits |-> <<0, 0, 0>>, r |-> n]

\* the lowest limb tells whether anything is left
Sticky(st) == <<IF st.r = Zero4 THEN 0 ELSE 1>> \o st.digits

\* the first 58 bits of n / d, and a sticky limb below them: four digits after
\* the leading bit, each step a value before the next one starts
Quotient(n, d) ==
  CHOOSE p \in {Sticky(t4) : t4 \in {DivStep(t3, d) : t3 \in {DivStep(t2, d) :
                 t2 \in {DivStep(t1, d) : t1 \in {DivStep(DivStart(n, d), d)}}}}} : TRUE

\* x / y; a zero divisor raises
ZeroDivisionError == [raised |-> "ZeroDivisionError"]

FDiv(x, y) ==
  IF IsZero(y) THEN ZeroDivisionError
  ELSE IF IsZero(x) THEN FZero
  ELSE Round((x.s + y.s) % 2, Quotient(ShiftLeft4(x.m, 3), ShiftLeft4(y.m, 3)),
             x.e - y.e - 70)

MagCmp(x, y) ==
  IF IsZero(x) THEN (IF IsZero(y) THEN 0 ELSE -1)
  ELSE IF IsZero(y) THEN 1
  ELSE IF x.e # y.e THEN (IF x.e < y.e THEN -1 ELSE 1)
  ELSE CmpLimbs(x.m, y.m, 4)

FCmp(x, y) ==
  IF x.s # y.s THEN (IF x.s = 1 THEN -1 ELSE 1)
  ELSE IF x.s = 0 THEN MagCmp(x, y) ELSE MagCmp(y, x)

\* x < y, x <= y
FLess(x, y) == FCmp(x, y) < 0
FLeq(x, y) == FCmp(x, y) <= 0

\* max(a, b) and min(a, b): the first argument unless the second is beyond it
FMax(a, b) == IF FLess(a, b) THEN b ELSE a
FMin(a, b) == IF FLess(b, a) THEN b ELSE a

\* float(n) for an int n
FromInt(n) ==
  LET a == IF n < 0 THEN 0 - n ELSE n
  IN  Round(IF n < 0 THEN 1 ELSE 0, <<a % Limb, (a \div Limb) % Limb, a \div (Limb * Limb)>>, 0)

\* round(x): the nearest int, a tie going to the even one
IntOf(s, m) == IF s = 1 THEN 0 - (m[1] + Limb * m[2]) ELSE m[1] + Limb * m[2]

FRound(x) ==
  IF IsZero(x) \/ 0 - x.e > 54 THEN 0 ELSE IntOf(x.s, Nearest(x.m, 0 - x.e))

--------------------------------------------------------------------------
(* Colour science *)

\* rows <<e, m0, m1, m2, m3>> of the doubles m * 2^e
LinearTable ==
  << <<0, 0, 0, 0, 0>>, <<-64, 14071, 7941, 1383, 1273>>, <<-63, 14071, 7941, 1383, 1273>>,
     <<-63, 12914, 3720, 10267, 1909>>, <<-62, 14071, 7941, 1383, 1273>>, <<-62, 5300, 5831, 5825, 1591>>,
     <<-62, 12914, 3720, 10267, 1909>>, <<-61, 2072, 8997, 15546, 1113>>, <<-61, 14071, 7941, 1383, 1273>>,
     <<-61, 9685, 6886, 3604, 1432>>, <<-61, 5300, 5831, 5825, 1591>>, <<-61, 7321, 5270, 8987, 1754>>,
     <<-61, 6621, 7218, 8989, 1927>>, <<-60, 937, 15894, 907, 1055>>, <<-60, 9249, 15285, 3115, 1151>>,
     <<-60, 8825, 15959, 4090, 1252>>, <<-60, 2344, 12783, 4972, 1358>>, <<-60, 2325, 11587, 6877, 1469>>,
     <<-60, 13665, 198, 10900, 1585>>, <<-60, 13137, 16101, 1728, 1707>>, <<-60, 8235, 15997, 13185, 1833>>,
     <<-60, 14544, 6181, 13537, 1965>>, <<-59, 4792, 12138, 10091, 1051>>, <<-59, 68, 10794, 677, 1123>>,
     <<-59, 2787, 11516, 3593, 1197>>, <<-59, 10597, 3831, 2939, 1274>>, <<-59, 2949, 702, 15574, 1353>>,
     <<-59, 14089, 10804, 9198, 1436>>, <<-59, 14003, 10486, 658, 1522>>, <<-59, 13601, 13726, 6792, 1610>>,
     <<-59, 5821, 10752, 11665, 1701>>, <<-59, 15030, 4711, 15719, 1795>>, <<-59, 13326, 15349, 3005, 1893>>,
     <<-59, 2111, 550, 6724, 1993>>, <<-58, 1684, 3531, 5457, 1048>>, <<-58, 3298, 4875, 7998, 1101>>,
     <<-58, 12658, 6410, 3000, 1156>>, <<-58, 1725, 1721, 7052, 1212>>, <<-58, 7179, 9950, 3971, 1270>>,
     <<-58, 8100, 11514, 10342, 1329>>, <<-58, 787, 14821, 9978, 1390>>, <<-58, 11758, 8244, 3075, 1453>>,
     <<-58, 13228, 10351, 6209, 1517>>, <<-58, 11739, 5386, 3188, 1583>>, <<-58, 2229, 9783, 10584, 1650>>,
     <<-58, 32, 7559, 12201, 1719>>, <<-58, 15321, 357, 8224, 1790>>, <<-58, 11295, 8299, 15219, 1862>>,
     <<-58, 15306, 5257, 601, 1937>>, <<-58, 8629, 1559, 13701, 2012>>, <<-57, 10360, 5981, 2772, 1045>>,
     <<-57, 16166, 3611, 12730, 1084>>, <<-57, 13435, 6541, 4043, 1125>>, <<-57, 9770, 6313, 9566, 1166>>,
     <<-57, 3345, 14418, 13000, 1208>>, <<-57, 10959, 13447, 14431, 1251>>, <<-57, 4351, 6540, 13943, 1295>>,
     <<-57, 10448, 1278, 11619, 1340>>, <<-57, 7888, 9961, 7541, 1386>>, <<-57, 5358, 713, 1793, 1433>>,
     <<-57, 14830, 12424, 10838, 1480>>, <<-57, 9255, 7540, 1991, 1529>>, <<-57, 2823, 3365, 8099, 1578>>,
     <<-57, 14796, 6754, 12857, 1628>>, <<-57, 5001, 14336, 16344, 1679>>, <<-57, 16316, 12717, 2255, 1732>>,
     <<-57, 5410, 11463, 3435, 1785>>, <<-57, 5874, 10520, 3577, 1839>>, <<-57, 6195, 413, 2758, 1894>>,
     <<-57, 5855, 11580, 1052, 1950>>, <<-57, 8264, 16248, 14920, 2006>>, <<-56, 1893, 13456, 5834, 1032>>,
     <<-56, 14357, 7290, 12070, 1061>>, <<-56, 4498, 3625, 9820, 1091>>, <<-56, 15586, 12258, 15504, 1121>>,
     <<-56, 5850, 6103, 12776, 1152>>, <<-56, 6482, 3176, 1671, 1184>>, <<-56, 14667, 1138, 14993, 1215>>,
     <<-56, 16274, 10132, 3625, 1248>>, <<-56, 8463, 3698, 372, 1281>>, <<-56, 7163, 759, 5268, 1314>>,
     <<-56, 7769, 152, 1964, 1348>>, <<-56, 15020, 13457, 6878, 1382>>, <<-56, 11988, 15908, 3662, 1417>>,
     <<-56, 382, 11986, 8734, 1452>>, <<-56, 14801, 2708, 5744, 1488>>, <<-56, 13607, 2074, 11109, 1524>>,
     <<-56, 7786, 4346, 8479, 1561>>, <<-56, 2672, 489, 14272, 1598>>, <<-56, 15497, 10990, 12136, 1636>>,
     <<-56, 5741, 3993, 2106, 1675>>, <<-56, 13892, 10028, 597, 1714>>, <<-56, 1540, 7381, 7643, 1753>>,
     <<-56, 15966, 4051, 6892, 1793>>, <<-56, 8240, 5039, 14760, 1833>>, <<-56, 9893, 12382, 14895, 1874>>,
     <<-56, 13496, 8820, 7330, 1916>>, <<-56, 3, 6989, 8480, 1958>>, <<-56, 15182, 306, 1993, 2001>>,
     <<-56, 706, 12172, 4283, 2044>>, <<-55, 9713, 15231, 15883, 1043>>, <<-55, 11663, 3789, 1278, 1066>>,
     <<-55, 111, 3967, 7492, 1088>>, <<-55, 12255, 5691, 1773, 1111>>, <<-55, 16112, 13975, 520, 1134>>,
     <<-55, 4426, 16165, 3749, 1157>>, <<-55, 291, 14724, 11475, 1180>>, <<-55, 7419, 10868, 7329, 1204>>,
     <<-55, 3573, 4583, 7710, 1228>>, <<-55, 10062, 11021, 12632, 1252>>, <<-55, 8149, 11369, 5727, 1277>>,
     <<-55, 13791, 2012, 3394, 1302>>, <<-55, 15987, 10936, 5646, 1327>>, <<-55, 8244, 15821, 12499, 1352>>,
     <<-55, 15009, 9590, 7584, 1378>>, <<-55, 14908, 428, 7299, 1404>>, <<-55, 6699, 11792, 11657, 1430>>,
     <<-55, 5055, 505, 4291, 1457>>, <<-55, 15488, 4227, 1597, 1484>>, <<-55, 4867, 10398, 3590, 1511>>,
     <<-55, 15197, 5396, 10285, 1538>>, <<-55, 11071, 7327, 5311, 1566>>, <<-55, 1657, 494, 5067, 1594>>,
     <<-55, 11275, 947, 9566, 1622>>, <<-55, 13438, 7347, 2438, 1651>>, <<-55, 8604, 973, 82, 1680>>,
     <<-55, 3, 11271, 2510, 1709>>, <<-55, 15114, 1176, 9738, 1738>>, <<-55, 9005, 14585, 5393, 1768>>,
     <<-55, 10095, 12519, 5875, 1798>>, <<-55, 510, 4213, 11197, 1828>>, <<-55, 6225, 14353, 4987, 1859>>,
     <<-55, 3944, 1172, 3645, 1890>>, <<-55, 5088, 3911, 7182, 1921>>, <<-55, 5872, 11760, 15612, 1952>>,
     <<-55, 16339, 13018, 12565, 1984>>, <<-55, 4685, 11490, 14438, 2016>>, <<-54, 1363, 5053, 10622, 1024>>,
     <<-54, 6010, 5468, 114, 1041>>, <<-54, 11066, 15791, 8469, 1057>>, <<-54, 13150, 11633, 2927, 1074>>,
     <<-54, 922, 956, 16262, 1090>>, <<-54, 9638, 7690, 15711, 1107>>, <<-54, 10647, 6208, 1282, 1125>>,
     <<-54, 12721, 3244, 5749, 1142>>, <<-54, 14823, 5132, 12734, 1159>>, <<-54, 6883, 1426, 5860, 1177>>,
     <<-54, 2296, 14054, 1516, 1195>>, <<-54, 3800, 15404, 16094, 1212>>, <<-54, 1080, 10248, 448, 1231>>,
     <<-54, 177, 2976, 3736, 1249>>, <<-54, 2689, 13985, 9579, 1267>>, <<-54, 444, 14147, 1601, 1286>>,
     <<-54, 1967, 6731, 12576, 1304>>, <<-54, 8861, 11024, 9741, 1323>>, <<-54, 7701, 13183, 9487, 1342>>,
     <<-54, 10153, 15388, 11820, 1361>>, <<-54, 10328, 3080, 363, 1381>>, <<-54, 6827, 10499, 7888, 1400>>,
     <<-54, 7547, 5999, 1635, 1420>>, <<-54, 930, 6741, 14377, 1439>>, <<-54, 8313, 13157, 13352, 1459>>,
     <<-54, 4445, 8958, 14951, 1479>>, <<-54, 1066, 10284, 2795, 1500>>, <<-54, 15045, 173, 9659, 1520>>,
     <<-54, 3033, 10488, 2779, 1541>>, <<-54, 8369, 7223, 14931, 1561>>, <<-54, 12391, 5203, 13352, 1582>>,
     <<-54, 14414, 2546, 14432, 1603>>, <<-54, 12721, 13435, 1792, 1625>>, <<-54, 1313, 2585, 8208, 1646>>,
     <<-54, 15101, 16315, 915, 1668>>, <<-54, 10686, 2334, 12690, 1689>>, <<-54, 8597, 6343, 10768, 1711>>,
     <<-54, 5578, 8203, 11540, 1733>>, <<-54, 955, 3856, 15012, 1755>>, <<-54, 6021, 5327, 4805, 1778>>,
     <<-54, 3677, 7961, 13693, 1800>>, <<-54, 5854, 6806, 8914, 1823>>, <<-54, 12018, 13002, 6857, 1846>>,
     <<-54, 16325, 4631, 7529, 1869>>, <<-54, 14210, 8639, 10934, 1892>>, <<-54, 8461, 2534, 695, 1916>>,
     <<-54, 14789, 12692, 9584, 1939>>, <<-54, 1318, 16059, 4840, 1963>>, <<-54, 7844, 5682, 2853, 1987>>,
     <<-54, 2435, 7104, 3627, 2011>>, <<-54, 16066, 12822, 7168, 2035>>, <<-53, 15538, 7532, 14933, 1029>>,
     <<-53, 75, 11087, 3095, 1042>>, <<-53, 6199, 12918, 9033, 1054>>, <<-53, 80, 8739, 16366, 1066>>,
     <<-53, 1224, 10513, 8712, 1079>>, <<-53, 1003, 13690, 2458, 1092>>, <<-53, 12015, 13589, 13991, 1104>>,
     <<-53, 2578, 5403, 10546, 1117>>, <<-53, 11226, 577, 8509, 1130>>, <<-53, 15237, 10433, 7882, 1143>>,
     <<-53, 11982, 13398, 8669, 1156>>, <<-53, 1745, 4158, 10873, 1169>>, <<-53, 3147, 10042, 14495, 1182>>,
     <<-53, 2823, 9106, 3155, 1196>>, <<-53, 3232, 12051, 9623, 1209>>, <<-53, 4749, 13073, 1134, 1223>>,
     <<-53, 3955, 6248, 10459, 1236>>, <<-53, 8140, 1916, 4832, 1250>>, <<-53, 491, 10300, 639, 1264>>,
     <<-53, 3387, 8735, 14268, 1277>>, <<-53, 10488, 7209, 12953, 1291>>, <<-53, 557, 15595, 13080, 1305>>,
     <<-53, 275, 10880, 14653, 1319>>, <<-53, 15841, 2706, 1290, 1334>>, <<-53, 13541, 604, 5761, 1348>>,
     <<-53, 14875, 13989, 11684, 1362>>, <<-53, 11299, 3014, 2680, 1377>>, <<-53, 9880, 9640, 11517, 1391>>,
     <<-53, 13293, 10182, 5431, 1406>>, <<-53, 16023, 13614, 808, 1421>>, <<-53, 463, 12418, 14035, 1435>>,
     <<-53, 14762, 15348, 12346, 1450>>, <<-53, 4785, 14673, 12128, 1465>>, <<-53, 6390, 2550, 13384, 1480>>,
     <<-53, 9883, 3801, 16115, 1495>>, <<-53, 4578, 10375, 3940, 1511>>, <<-53, 6832, 14115, 9630, 1526>>,
     <<-53, 6023, 6762, 420, 1542>>, <<-53, 8740, 12721, 9079, 1557>>, <<-53, 887, 7144, 2843, 1573>>,
     <<-53, 8009, 14231, 14481, 1588>>, <<-53, 8005, 8932, 11229, 1604>>, <<-53, 7589, 15247, 9472, 1620>>,
     <<-53, 3943, 7925, 9214, 1636>>, <<-53, 11772, 10767, 10456, 1652>>, <<-53, 8351, 14710, 13201, 1668>>,
     <<-53, 9518, 10591, 1068, 1685>>, <<-53, 14479, 5535, 6827, 1701>>, <<-53, 16066, 6571, 14096, 1717>>,
     <<-53, 10857, 4248, 6494, 1734>>, <<-53, 9208, 5403, 407, 1751>>, <<-53, 12422, 395, 12222, 1767>>,
     <<-53, 6171, 12258, 9172, 1784>>, <<-53, 3003, 14779, 7645, 1801>>, <<-53, 2801, 14421, 7643, 1818>>,
     <<-53, 2315, 1171, 9169, 1835>>, <<-53, 4593, 14076, 12223, 1852>>, <<-53, 11906, 10172, 426, 1870>>,
     <<-53, 2260, 11942, 6547, 1887>>, <<-53, 4053, 9008, 14205, 1904>>, <<-53, 6822, 7289, 7018, 1922>>,
     <<-53, 2996, 12615, 1372, 1940>>, <<-53, 13137, 14342, 13654, 1957>>, <<-53, 12822, 1741, 11099, 1975>>,
     <<-53, 6878, 13146, 10091, 1993>>, <<-53, 5222, 4884, 10635, 2011>>, <<-53, 15026, 15116, 12731, 2029>>,
     <<-52, 0, 0, 0, 1024>> >>

EncodeThreshold ==
  << <<-65, 14072, 7941, 1383, 1273>>, <<-64, 12914, 3720, 10267, 1909>>, <<-63, 5301, 5831, 5825, 1591>>,
     <<-62, 2072, 8997, 15546, 1113>>, <<-62, 9686, 6886, 3604, 1432>>, <<-62, 915, 4776, 8046, 1750>>,
     <<-61, 12457, 1332, 6244, 1034>>, <<-61, 8071, 277, 8465, 1193>>, <<-61, 3687, 15606, 10685, 1352>>,
     <<-61, 15685, 14550, 12906, 1511>>, <<-61, 9402, 3746, 9632, 1671>>, <<-61, 8425, 4575, 14132, 1839>>,
     <<-61, 4805, 9252, 10245, 2017>>, <<-60, 2774, 4006, 8382, 1102>>, <<-60, 1423, 12719, 1637, 1201>>,
     <<-60, 6578, 3726, 10617, 1304>>, <<-60, 348, 7509, 3680, 1413>>, <<-60, 6618, 10290, 14700, 1526>>,
     <<-60, 11710, 6125, 11993, 1645>>, <<-60, 13771, 14642, 13005, 1769>>, <<-60, 12955, 15456, 2397, 1899>>,
     <<-60, 5939, 12399, 13962, 2033>>, <<-59, 1163, 15543, 16161, 1086>>, <<-59, 1372, 391, 12852, 1159>>,
     <<-59, 11742, 14284, 5730, 1235>>, <<-59, 10710, 471, 11662, 1313>>, <<-59, 5217, 10121, 14733, 1394>>,
     <<-59, 11592, 10598, 15410, 1478>>, <<-59, 1990, 4723, 14151, 1565>>, <<-59, 9665, 2286, 11407, 1655>>,
     <<-59, 14891, 7695, 7623, 1748>>, <<-59, 11397, 7375, 3239, 1844>>, <<-59, 10909, 6103, 15072, 1942>>,
     <<-59, 6727, 13991, 10781, 2044>>, <<-58, 2080, 255, 11779, 1074>>, <<-58, 2148, 14284, 10524, 1128>>,
     <<-58, 9581, 5797, 1834, 1184>>, <<-58, 6358, 13767, 2294, 1241>>, <<-58, 11153, 5053, 12107, 1299>>,
     <<-58, 13848, 6691, 15086, 1359>>, <<-58, 11248, 8743, 11428, 1421>>, <<-58, 12968, 14548, 1327, 1485>>,
     <<-58, 12027, 9003, 1360, 1550>>, <<-58, 8055, 8712, 11716, 1616>>, <<-58, 2698, 13787, 16199, 1684>>,
     <<-58, 13844, 8757, 14996, 1754>>, <<-58, 4233, 12594, 8290, 1826>>, <<-58, 9808, 14001, 12648, 1899>>,
     <<-58, 13072, 4984, 11867, 1974>>, <<-57, 10627, 7189, 11254, 1025>>, <<-57, 2021, 5139, 14183, 1064>>,
     <<-57, 15610, 15902, 14807, 1104>>, <<-57, 7455, 4783, 13215, 1145>>, <<-57, 7659, 6026, 9491, 1187>>,
     <<-57, 1608, 8444, 3721, 1230>>, <<-57, 9155, 4865, 12374, 1273>>, <<-57, 11611, 8808, 2765, 1318>>,
     <<-57, 14541, 5604, 7746, 1363>>, <<-57, 9604, 1817, 11015, 1409>>, <<-57, 7519, 9115, 12653, 1456>>,
     <<-57, 2631, 11752, 12742, 1504>>, <<-57, 7405, 15957, 11362, 1553>>, <<-57, 16334, 1015, 8594, 1603>>,
     <<-57, 3985, 1410, 4515, 1654>>, <<-57, 12426, 8731, 15588, 1705>>, <<-57, 6078, 4657, 9124, 1758>>,
     <<-57, 7328, 10302, 1583, 1812>>, <<-57, 9915, 4495, 9427, 1866>>, <<-57, 2835, 5887, 16347, 1921>>,
     <<-57, 10616, 7595, 6035, 1978>>, <<-57, 7149, 10152, 11334, 2035>>, <<-56, 9025, 10836, 16159, 1046>>,
     <<-56, 11243, 12627, 9955, 1076>>, <<-56, 917, 5954, 11668, 1106>>, <<-56, 12065, 14929, 4949, 1137>>,
     <<-56, 3463, 10434, 6220, 1168>>, <<-56, 15087, 8489, 15516, 1199>>, <<-56, 11082, 4797, 105, 1232>>,
     <<-56, 580, 7574, 9174, 1264>>, <<-56, 11584, 4850, 9991, 1297>>, <<-56, 1228, 13692, 2590, 1331>>,
     <<-56, 14721, 14722, 3391, 1365>>, <<-56, 4467, 1342, 12429, 1399>>, <<-56, 14754, 12551, 13352, 1434>>,
     <<-56, 12351, 1942, 6197, 1470>>, <<-56, 2755, 1592, 7380, 1506>>, <<-56, 7219, 7431, 551, 1543>>,
     <<-56, 15980, 12067, 2128, 1580>>, <<-56, 598, 4838, 12145, 1617>>, <<-56, 2456, 4626, 14250, 1655>>,
     <<-56, 3432, 10763, 8476, 1694>>, <<-56, 5305, 3075, 11241, 1733>>, <<-56, 7473, 7467, 6192, 1773>>,
     <<-56, 14559, 14049, 9746, 1813>>, <<-56, 9195, 9951, 5552, 1854>>, <<-56, 5086, 12132, 10025, 1895>>,
     <<-56, 971, 1890, 6814, 1937>>, <<-56, 15990, 6822, 12333, 1979>>, <<-56, 10671, 2566, 10231, 2022>>,
     <<-55, 2551, 5569, 269, 1033>>, <<-55, 907, 9528, 16219, 1054>>, <<-55, 12465, 13264, 3829, 1077>>,
     <<-55, 7036, 7364, 12267, 1099>>, <<-55, 16030, 13870, 8779, 1122>>, <<-55, 304, 4385, 9766, 1145>>,
     <<-55, 6374, 14769, 15241, 1168>>, <<-55, 5096, 14094, 8837, 1192>>, <<-55, 2725, 2958, 6953, 1216>>,
     <<-55, 15046, 13503, 9602, 1240>>, <<-55, 2937, 11131, 417, 1265>>, <<-55, 15404, 9199, 12180, 1289>>,
     <<-55, 15845, 3509, 12138, 1314>>, <<-55, 14433, 5083, 305, 1340>>, <<-55, 15094, 7413, 9464, 1365>>,
     <<-55, 6741, 2860, 6862, 1391>>, <<-55, 15159, 15433, 8896, 1417>>, <<-55, 2831, 2505, 15583, 1443>>,
     <<-55, 9870, 2274, 10551, 1470>>, <<-55, 12096, 2713, 10199, 1497>>, <<-55, 4075, 7114, 14541, 1524>>,
     <<-55, 12526, 1332, 7208, 1552>>, <<-55, 7279, 2955, 4597, 1580>>, <<-55, 4907, 12158, 6722, 1608>>,
     <<-55, 4600, 11719, 13598, 1636>>, <<-55, 2304, 16182, 8854, 1665>>, <<-55, 1034, 6332, 8889, 1694>>,
     <<-55, 1410, 11127, 13715, 1723>>, <<-55, 4947, 9405, 6963, 1753>>, <<-55, 14045, 11815, 5030, 1783>>,
     <<-55, 12262, 11677, 7930, 1813>>, <<-55, 6918, 1374, 15677, 1843>>, <<-55, 2983, 5132, 11899, 1874>>,
     <<-55, 6756, 13494, 12994, 1905>>, <<-55, 10022, 16099, 2592, 1937>>, <<-55, 4280, 1691, 13475, 1968>>,
     <<-55, 8299, 7279, 12886, 2000>>, <<-55, 11130, 3462, 840, 2033>>, <<-54, 5314, 12754, 13250, 1032>>,
     <<-54, 122, 12954, 3981, 1049>>, <<-54, 9358, 10919, 13579, 1065>>, <<-54, 8537, 14820, 9282, 1082>>,
     <<-54, 820, 16027, 7481, 1099>>, <<-54, 5450, 5498, 8183, 1116>>, <<-54, 12168, 6554, 11393, 1133>>,
     <<-54, 108, 9346, 734, 1151>>, <<-54, 4641, 3623, 8981, 1168>>, <<-54, 2961, 11511, 3371, 1186>>,
     <<-54, 11553, 5591, 296, 1204>>, <<-54, 2417, 7212, 16145, 1221>>, <<-54, 14858, 4568, 1773, 1240>>,
     <<-54, 4164, 1863, 6338, 1258>>, <<-54, 531, 2921, 13462, 1276>>, <<-54, 4993, 11196, 6767, 1295>>,
     <<-54, 15367, 13390, 2644, 1314>>, <<-54, 2252, 12226, 1099, 1333>>, <<-54, 15095, 10061, 2138, 1352>>,
     <<-54, 8924, 8900, 5767, 1371>>, <<-54, 14253, 10389, 11992, 1390>>, <<-54, 11257, 15826, 4435, 1410>>,
     <<-54, 16079, 9775, 15871, 1429>>, <<-54, 2551, 9226, 13537, 1449>>, <<-54, 3260, 14440, 13823, 1469>>,
     <<-54, 13353, 8958, 352, 1490>>, <<-54, 8141, 8755, 5897, 1510>>, <<-54, 9232, 13087, 14080, 1530>>,
     <<-54, 2393, 4499, 8524, 1551>>, <<-54, 2215, 14360, 5617, 1572>>, <<-54, 1349, 8181, 5367, 1593>>,
     <<-54, 1017, 304, 7779, 1614>>, <<-54, 8044, 4753, 12858, 1635>>, <<-54, 14902, 2470, 4227, 1657>>,
     <<-54, 11800, 6853, 14659, 1678>>, <<-54, 14621, 14605, 11392, 1700>>, <<-54, 10234, 5740, 10817, 1722>>,
     <<-54, 15950, 9118, 12938, 1744>>, <<-54, 7260, 4148, 1378, 1767>>, <<-54, 8876, 2705, 8910, 1789>>,
     <<-54, 4922, 16370, 2771, 1812>>, <<-54, 12472, 7276, 15737, 1834>>, <<-54, 6985, 2803, 15044, 1857>>,
     <<-54, 11147, 13655, 697, 1881>>, <<-54, 2851, 1100, 5472, 1904>>, <<-54, 2985, 8039, 12988, 1927>>,
     <<-54, 15145, 11556, 6868, 1951>>, <<-54, 14091, 4841, 3502, 1975>>, <<-54, 15553, 13572, 2894, 1999>>,
     <<-54, 14549, 14001, 5051, 2023>>, <<-54, 5080, 14875, 9978, 2047>>, <<-53, 7904, 12334, 648, 1036>>,
     <<-53, 15252, 9410, 5890, 1048>>, <<-53, 3237, 10829, 12525, 1060>>, <<-53, 3531, 12235, 4172, 1073>>,
     <<-53, 11300, 9143, 13602, 1085>>, <<-53, 1885, 13323, 8049, 1098>>, <<-53, 12863, 3644, 3901, 1111>>,
     <<-53, 12878, 8003, 1159, 1124>>, <<-53, 16039, 5015, 16211, 1136>>, <<-53, 15900, 5938, 16291, 1149>>,
     <<-53, 1167, 5521, 1402, 1163>>, <<-53, 3942, 14770, 4314, 1176>>, <<-53, 393, 11803, 8647, 1189>>,
     <<-53, 7772, 7381, 14403, 1202>>, <<-53, 1076, 12146, 5200, 1216>>, <<-53, 9725, 3848, 13810, 1229>>,
     <<-53, 1087, 9273, 7466, 1243>>, <<-53, 9575, 5932, 2556, 1257>>, <<-53, 3452, 3990, 15466, 1270>>,
     <<-53, 13566, 13491, 13430, 1284>>, <<-53, 16228, 11598, 12836, 1298>>, <<-53, 12451, 8125, 13686, 1312>>,
     <<-53, 8813, 12771, 15982, 1326>>, <<-53, 14469, 2353, 3344, 1341>>, <<-53, 5289, 2729, 8541, 1355>>,
     <<-53, 2512, 6874, 15192, 1369>>, <<-53, 3800, 7653, 6916, 1384>>, <<-53, 12433, 14204, 99, 1399>>,
     <<-53, 859, 2789, 11129, 1413>>, <<-53, 5109, 15093, 7238, 1428>>, <<-53, 6163, 10776, 4815, 1443>>,
     <<-53, 7697, 14925, 3861, 1458>>, <<-53, 15465, 3368, 4380, 1473>>, <<-53, 105, 981, 6373, 1488>>,
     <<-53, 7311, 16146, 9842, 1503>>, <<-53, 5695, 7993, 14792, 1518>>, <<-53, 13080, 1081, 4840, 1534>>,
     <<-53, 9643, 3484, 12756, 1549>>, <<-53, 14815, 6787, 5775, 1565>>, <<-53, 154, 2476, 284, 1581>>,
     <<-53, 15169, 14699, 12668, 1596>>, <<-53, 1654, 1974, 10164, 1612>>, <<-53, 1179, 4633, 9156, 1628>>,
     <<-53, 1969, 13760, 9647, 1644>>, <<-53, 15089, 3955, 11641, 1660>>, <<-53, 3022, 15259, 15138, 1676>>,
     <<-53, 4776, 5691, 3759, 1693>>, <<-53, 15091, 15096, 10272, 1709>>, <<-53, 11034, 1304, 1914, 1726>>,
     <<-53, 11200, 3967, 11453, 1742>>, <<-53, 3811, 13492, 6124, 1759>>, <<-53, 5702, 3806, 2315, 1776>>,
     <<-53, 6586, 14280, 26, 1793>>, <<-53, 11478, 2271, 15646, 1809>>, <<-53, 1129, 6965, 23, 1827>>,
     <<-53, 7026, 1917, 2313, 1844>>, <<-53, 6102, 9746, 6133, 1861>>, <<-53, 11915, 3826, 11487, 1878>>,
     <<-53, 1962, 6595, 1992, 1896>>, <<-53, 8648, 7630, 10419, 1913>>, <<-53, 13662, 12806, 4002, 1931>>,
     <<-53, 5996, 11525, 15512, 1948>>, <<-53, 7224, 9483, 12183, 1966>>, <<-53, 14636, 12290, 10401, 1984>>,
     <<-53, 9966, 9086, 10169, 2002>>, <<-53, 698, 5307, 11489, 2020>>, <<-53, 12179, 6302, 14363, 2038>> >>

channel_to_linear(channel) ==
  LET t == LinearTable[channel + 1]
  IN  Float(0, t[1], <<t[2], t[3], t[4], t[5]>>)

EncodeAt(n) ==
  LET t == EncodeThreshold[n]
  IN  Float(0, t[1], <<t[2], t[3], t[4], t[5]>>)

\* the number of thresholds that are <= v
EncodeCount(v) == Cardinality({n \in 1..255 : FLeq(EncodeAt(n), v)})

\* 1.0, 2.0 (the int 2 of l.110, as a float) and 0.05
FOne == [s |-> 0, e |-> -52, m |-> <<0, 0, 0, 1024>>]
FTwo == [s |-> 0, e |-> -51, m |-> <<0, 0, 0, 1024>>]
ContrastOffset == [s |-> 0, e |-> -57, m |-> <<6554, 9830, 6553, 1638>>]

\* value = max(0.0, min(1.0, value)); round(srgb * 255)
linear_to_channel(value) == EncodeCount(FMax(FZero, FMin(FOne, value)))

\* 0.2126, 0.7152 and 0.0722
LumaRed == [s |-> 0, e |-> -55, m |-> <<5820, 15938, 10144, 1741>>]
LumaGreen == [s |-> 0, e |-> -53, m |-> <<11429, 12556, 11953, 1464>>]
LumaBlue == [s |-> 0, e |-> -56, m |-> <<11613, 15125, 15151, 1182>>]

\* the three channel values f[1], f[2], f[3]
Triple(f) == <<f[1], f[2], f[3]>>

\* the linear channels rl, gl, bl of the 8-bit channels r, g, b
Linear(rgb) == Triple([i \in 1..3 |-> channel_to_linear(rgb[i])])

\* 0.2126 * rl + 0.7152 * gl + 0.0722 * bl
Luma(lin) ==
  FAdd(FAdd(FMul(LumaRed, lin[1]), FMul(LumaGreen, lin[2])), FMul(LumaBlue, lin[3]))

relative_luminance(color) == Luma(Linear(hex_to_rgb(color)))

\* (lighter + 0.05) / (darker + 0.05)
Ratio(la, lb) == FDiv(FAdd(FMax(la, lb), ContrastOffset), FAdd(FMin(la, lb), ContrastOffset))

contrast_ratio(a, b) == Ratio(relative_luminance(a), relative_luminance(b))

\* round(a + (b - a) * amount)
BlendChannel(a, b, amount) == FRound(FAdd(FromInt(a), FMul(FromInt(b - a), amount)))

BlendChannels(x, y, amount) == Triple([i \in 1..3 |-> BlendChannel(x[i], y[i], amount)])

blend(a, b, amount) == rgb_to_hex(BlendChannels(hex_to_rgb(a), hex_to_rgb(b), amount))

--------------------------------------------------------------------------
(* best_contrast_text *)

InSeq(x, s) == \E i \in 1..Len(s) : s[i] = x

\* the loop of l.79-82, from candidate i on
RECURSIVE UniqueCandidates(_, _, _)
UniqueCandidates(candidates, i, unique) ==
  IF i > Len(candidates) THEN unique
  ELSE LET normalized == normalize_hex(candidates[i])
       IN  UniqueCandidates(candidates, i + 1,
             IF normalized # NoneVal /\ ~InSeq(normalized, unique)
             THEN Append(unique, normalized) ELSE unique)

\* key(color) of l.87 for each of the colors
ContrastKeys(background, colors) == [c \in colors |-> contrast_ratio(background, c)]

\* variant: the later color also when its key is equal, which makes the last
\* of several greatest elements win
GreaterOrEqual(key, best, color) == IF FLess(key[color], key[best]) THEN best ELSE color

RECURSIVE MaxByContrastLast(_, _, _, _)
MaxByContrastLast(background, s, i, best) ==
  IF i > Len(s) THEN best
  ELSE CHOOSE r \in {MaxByContrastLast(background, s, i + 1, b) :
                      b \in {GreaterOrEqual(ContrastKeys(background, {best, s[i]}), best, s[i])}} : TRUE

\* the later color only when its key is greater
Greater(key, best, color) == IF FLess(key[best], key[color]) THEN color ELSE best

\* max(seq, key=...): the first element whose key no later element exceeds;
\* the best so far is a value before the next element is looked at
RECURSIVE MaxByContrast(_, _, _, _)
MaxByContrast(background, s, i, best) ==
  IF i > Len(s) THEN best
  ELSE CHOOSE r \in {MaxByContrast(background, s, i + 1, b) :
                      b \in {Greater(ContrastKeys(background, {best, s[i]}), best, s[i])}} : TRUE

\* l.84-87
BestOf(background, unique_candidates) ==
  IF unique_candidates = <<>> THEN "#ffffff"
  ELSE MaxByContrast(background, unique_candidates, 2, unique_candidates[1])

best_contrast_text(background, candidates) ==
  BestOf(background, UniqueCandidates(candidates, 1, <<>>))

--------------------------------------------------------------------------
(* boost_saturation_preserve_luminance *)

SearchIterations == 20

\* l.94-98: the linear channels and their luminance
LocalsOf(lin) == [r |-> lin[1], g |-> lin[2], b |-> lin[3], y |-> Luma(lin)]

BoostLocals(color) == LocalsOf(Linear(hex_to_rgb(color)))

\* y + (c - y) * k
TransformChannel(y, c, k) == FAdd(y, FMul(FSub(c, y), k))

transform(loc, k) ==
  Triple([i \in 1..3 |-> TransformChannel(loc.y, <<loc.r, loc.g, loc.b>>[i], k)])

\* 0.0 <= t <= 1.0
ChannelInGamut(t) == FLeq(FZero, t) /\ FLeq(t, FOne)

AllInGamut(t) == ChannelInGamut(t[1]) /\ ChannelInGamut(t[2]) /\ ChannelInGamut(t[3])

\* l.112
InGamut(loc, k) == AllInGamut(transform(loc, k))

\* variant: the two branches of the gamut test exchanged
NarrowInverted(loc, s, mid) ==
  IF InGamut(loc, mid) THEN [low |-> s.low, high |-> mid] ELSE [low |-> mid, high |-> s.high]

SearchStepInverted(loc, s) ==
  CHOOSE r \in {NarrowInverted(loc, s, mid) : mid \in {FDiv(FAdd(s.low, s.high), FTwo)}} : TRUE

\* l.111-115
Narrow(loc, s, mid) ==
  IF InGamut(loc, mid) THEN [low |-> mid, high |-> s.high] ELSE [low |-> s.low, high |-> mid]

\* one pass of the loop body, l.110-115: mid is a value before the test
SearchStep(loc, s) ==
  CHOOSE r \in {Narrow(loc, s, mid) : mid \in {FDiv(FAdd(s.low, s.high), FTwo)}} : TRUE

\* n passes of the loop, l.109: the first n \div 2 of them, then the others;
\* the result of the first part is a value before the second part starts
RECURSIVE SearchLoop(_, _, _)
SearchLoop(loc, s, n) ==
  IF n = 0 THEN s
  ELSE IF n = 1 THEN SearchStep(loc, s)
  ELSE CHOOSE r \in {SearchLoop(loc, t, n - n \div 2) : t \in {SearchLoop(loc, s, n \div 2)}} :
         TRUE

\* l.107-108
SearchStart(factor) == [low |-> FOne, high |-> factor]

\* the colour of three linear channels, which are values before they are encoded
Encoded(lin) ==
  CHOOSE r \in {rgb_to_hex(Triple([i \in 1..3 |-> linear_to_channel(t[i])])) : t \in {lin}} : TRUE

\* l.117-124
BoostResult(loc, low) == Encoded(transform(loc, low))

\* l.107-124
BoostSearch(loc, factor) ==
  CHOOSE r \in {BoostResult(loc, s.low) :
                 s \in {SearchLoop(loc, SearchStart(factor), SearchIterations)}} : TRUE

\* l.91-124: the locals of l.94-98 are values before the search starts
boost_saturation_preserve_luminance(color, factor) ==
  IF FLeq(factor, FOne) THEN color
  ELSE CHOOSE r \in {BoostSearch(loc, factor) : loc \in {BoostLocals(color)}} : TRUE

--------------------------------------------------------------------------
(* scale_luminance *)

\* 0.001
NearBlack == [s |-> 0, e |-> -62, m |-> <<10748, 3014, 9437, 1048>>]

\* l.139-141 and l.147-149: the three channels times factor
Scaled(lin, factor) == Triple([i \in 1..3 |-> FMul(lin[i], factor)])

\* max(new_r, new_g, new_b): the first of the greatest
Max3(t) == FMax(FMax(t[1], t[2]), t[3])

\* l.144-149
Fitted(lin, factor, new, max_val) ==
  IF FLess(FOne, max_val) THEN Scaled(lin, FDiv(factor, max_val)) ELSE new

Refitted(lin, factor, new) == Fitted(lin, factor, new, Max3(new))

\* l.138-149
Rescaled(lin, factor) == Refitted(lin, factor, Scaled(lin, factor))

\* l.133-155
ScaleToward(color, lin, current_lum, target_lum) ==
  IF FLess(current_lum, NearBlack) THEN color
  ELSE CHOOSE r \in {Encoded(Rescaled(lin, factor)) :
                      factor \in {FDiv(target_lum, current_lum)}} : TRUE

ScaleLinear(color, lin, target_lum) == ScaleToward(color, lin, Luma(lin), target_lum)

scale_luminance(color, target_lum) == ScaleLinear(color, Linear(hex_to_rgb(color)), target_lum)
--------------------------------------------------------------------------
(* Lines *)

\* the length of the longest prefix of s without a line break
LineLen(s) == Span(s, LineBreakChars, FALSE)

\* position i of s ends a line: it holds a line break that is not the "\r" of a "\r\n"
EndsLine(s, i) ==
  /\ InClass(Char(s, i), LineBreakChars)
  /\ ~(Char(s, i) = "\r" /\ i < Len(s) /\ SubSeq(s, i, i + 1) = "\r\n")

\* the positions of s at which a line starts; a break at the very end opens none
LineStarts(s) == {p \in 1..Len(s) : p = 1 \/ EndsLine(s, p - 1)}

\* the line of s that starts at p, without its line break
LineAt(s, p) == SubSeq(s, p, p - 1 + LineLen(Rest(s, p - 1)))

\* the lines that start at the positions starts, in their order
LinesAt(s, starts) ==
  SubSeq([k \in 1..Cardinality(starts) |->
            LineAt(s, CHOOSE p \in starts : Cardinality({q \in starts : q <= p}) = k)],
         1, Cardinality(starts))

\* str.splitlines()
SplitLines(s) == LinesAt(s, LineStarts(s))

\* "\n".join(lines), half by half
RECURSIVE Join(_)
Join(lines) ==
  IF Len(lines) = 0 THEN ""
  ELSE IF Len(lines) = 1 THEN lines[1]
  ELSE Join(SubSeq(lines, 1, Len(lines) \div 2)) \o "\n"
       \o Join(SubSeq(lines, Len(lines) \div 2 + 1, Len(lines)))

--------------------------------------------------------------------------
(* load_ghostty_config *)


HasNewline(s) == \E i \in 1..Len(s) : Char(s, i) = "\n"

\* the last character of s, "" when s is empty
LastChar(s) == IF Len(s) = 0 THEN "" ELSE SubSeq(s, Len(s), Len(s))

\* \s*(.+)$ on the text after "=": group 2, "" when there is no match.  (.+)
\* takes no "\n" and $ holds at the end or before a final "\n"; when only
\* spaces follow "=", \s* gives the last possible one back to (.+).
AssignedValue(afterEq, rest) ==
  IF rest = "" THEN LastChar(Chomp(afterEq)) ELSE Chomp(rest)

\* ^([class]+)\s*=\s*(.+)$ with re.match: <<matched, group 1, group 2>>.
\* No character of class is a space or "=", so group 1 is the longest prefix in class.
MatchGroups(key, value) ==
  IF Len(value) >= 1 /\ ~HasNewline(value) THEN <<TRUE, key, value>> ELSE <<FALSE, "", "">>

MatchAfterEq(key, afterEq) == MatchGroups(key, AssignedValue(afterEq, LStrip(afterEq)))

MatchAfterKey(key, afterKey) ==
  IF Len(key) >= 1 /\ Len(afterKey) >= 1 /\ Char(afterKey, 1) = "="
  THEN MatchAfterEq(key, Rest(afterKey, 1))
  ELSE <<FALSE, "", "">>

MatchPrefix(s, n) == MatchAfterKey(SubSeq(s, 1, n), LStrip(Rest(s, n)))

MatchAssign(s, class) == MatchPrefix(s, PrefixLen(s, class))

\* KEY_VALUE_RE = ^([a-z0-9-]+)\s*=\s*(.+)$
KEY_VALUE_RE(s) == MatchAssign(s, KeyChars)

\* PALETTE_LINE_RE = ^(\d+)\s*=\s*(#[0-9a-fA-F]{6})$
PALETTE_LINE_RE(s) ==
  LET m == MatchAssign(s, Digits)
  IN  IF m[1] /\ HEX_RE(m[3]) THEN m ELSE <<FALSE, "", "">>

\* int(s) for a string of digits
RECURSIVE DecVal(_)
DecVal(s) ==
  IF Len(s) = 0 THEN 0
  ELSE 10 * DecVal(SubSeq(s, 1, Len(s) - 1)) + HexVal(Char(s, Len(s)))

\* key.replace("-", "_"), half by half
RECURSIVE DashToUnderscore(_)
DashToUnderscore(s) ==
  IF Len(s) <= 1 THEN (IF s = "-" THEN "_" ELSE s)
  ELSE DashToUnderscore(SubSeq(s, 1, Len(s) \div 2))
       \o DashToUnderscore(SubSeq(s, Len(s) \div 2 + 1, Len(s)))

EmptyDict == [k \in {} |-> NoneVal]

\* d[k] = v
Put(d, k, v) == [x \in DOMAIN d \cup {k} |-> IF x = k THEN v ELSE d[x]]

\* d.get(k)
Get(d, k) == IF k \in DOMAIN d THEN d[k] ELSE NoneVal

\* a or b, for values that are strings or None
Or(a, b) == IF a # NoneVal /\ a # "" THEN a ELSE b

ThemeKeys == {"foreground", "background", "selection-background"}

\* the loop body of l.172-194 applied to one line of the output
ParseLine(acc, raw_line) ==
  LET line == Strip(raw_line)
      kv == KEY_VALUE_RE(line)
      key == kv[2]
      value == Strip(kv[3])
      pm == PALETTE_LINE_RE(value)
      color == normalize_hex(IF key = "palette" THEN pm[3] ELSE value)
  IN  IF line = "" \/ Char(line, 1) = "#" THEN acc
      ELSE IF ~kv[1] THEN acc
      ELSE IF key = "palette" THEN
        (IF pm[1] /\ color # NoneVal
         THEN Put(acc, "palette", Put(acc.palette, DecVal(pm[2]), color))
         ELSE acc)
      ELSE IF key \in ThemeKeys /\ color # NoneVal THEN Put(acc, DashToUnderscore(key), color)
      ELSE acc

\* the loop of l.172-194 over lines: over their first half, then over the
\* others; the result of the first part is a value before the second starts
RECURSIVE ParseLines(_, _)
ParseLines(acc, lines) ==
  IF Len(lines) = 0 THEN acc
  ELSE IF Len(lines) = 1 THEN ParseLine(acc, lines[1])
  ELSE CHOOSE r \in {ParseLines(t, SubSeq(lines, Len(lines) \div 2 + 1, Len(lines))) :
                      t \in {ParseLines(acc, SubSeq(lines, 1, Len(lines) \div 2))}} : TRUE

\* What subprocess.run does: "ok" with result.stdout, or the exception it
\* raises: CalledProcessError for a non-zero exit, FileNotFoundError for a
\* missing executable, and PermissionError for one that may not be executed.
Caught == {"CalledProcessError", "FileNotFoundError"}
Raised(exception) == [raised |-> exception]
IsRaised(result) == DOMAIN result = {"raised"}

\* variant: a failed command yields the initial dict instead of {}
load_ghostty_config_lenient(outcome) ==
  IF outcome.status \in Caught THEN [palette |-> EmptyDict]
  ELSE IF outcome.status # "ok" THEN Raised(outcome.status)
  ELSE ParseLines([palette |-> EmptyDict], SplitLines(outcome.stdout))

\* l.159-167: only the two exceptions of l.166 are caught, any other leaves
\* the function; l.169-196 otherwise
load_ghostty_config(outcome) ==
  IF outcome.status \in Caught THEN EmptyDict
  ELSE IF outcome.status # "ok" THEN Raised(outcome.status)
  ELSE ParseLines([palette |-> EmptyDict], SplitLines(outcome.stdout))

--------------------------------------------------------------------------
(* build_starship_palette *)

\* 0.26, 1.35, 0.55 and 3.5
DARK_BACKGROUND_LUMINANCE_THRESHOLD == [s |-> 0, e |-> -54, m |-> <<12452, 10485, 15728, 1064>>]
DARK_THEME_SATURATION_BOOST == [s |-> 0, e |-> -52, m |-> <<6554, 9830, 6553, 1382>>]
DARK_ACCENT_MAX_LUMINANCE == [s |-> 0, e |-> -53, m |-> <<6554, 9830, 6553, 1126>>]
DARK_ACCENT_MIN_CONTRAST == [s |-> 0, e |-> -51, m |-> <<0, 0, 0, 1792>>]
\* 0.15 (l.253), 0.25 (l.207) and 0.5 (l.216)
ContrastTargetFloor == [s |-> 0, e |-> -55, m |-> <<13107, 3276, 13107, 1228>>]
SelectionBlend == [s |-> 0, e |-> -54, m |-> <<0, 0, 0, 1024>>]
OrangeBlend == [s |-> 0, e |-> -53, m |-> <<0, 0, 0, 1024>>]

AccentNames == {"red", "green", "yellow", "blue", "purple", "aqua", "orange"}

\* the seven accent variables, each holding f of its name
Accents(f) ==
  [red |-> f["red"], green |-> f["green"], yellow |-> f["yellow"], blue |-> f["blue"],
   purple |-> f["purple"], aqua |-> f["aqua"], orange |-> f["orange"]]

\* l.200
Colors(p) == IF "palette" \in DOMAIN p THEN p.palette ELSE EmptyDict

\* variant: only the fixed constants stand in, never palette slots or the blend
ResolveBaseFixed(p) ==
  [foreground |-> Or(Get(p, "foreground"), "#fbf1c7"),
   background |-> Or(Get(p, "background"), "#3c3836"),
   selection_background |-> Or(Get(p, "selection_background"), "#665c54")]

\* l.202-208
ResolveBase(p) ==
  LET foreground == Or(Get(p, "foreground"), Or(Get(Colors(p), 7), "#fbf1c7"))
      background == Or(Get(p, "background"), Or(Get(Colors(p), 0), "#3c3836"))
  IN  [foreground |-> foreground,
       background |-> background,
       selection_background |->
         Or(Get(p, "selection_background"),
            Or(Get(Colors(p), 8), blend(background, foreground, SelectionBlend)))]

\* l.210-216
ResolveAccents(p) ==
  LET red == Or(Get(Colors(p), 1), "#cc241d")
      yellow == Or(Get(Colors(p), 3), "#d79921")
  IN  [red |-> red,
       green |-> Or(Get(Colors(p), 2), "#98971a"),
       yellow |-> yellow,
       blue |-> Or(Get(Colors(p), 4), "#458588"),
       purple |-> Or(Get(Colors(p), 5), "#b16286"),
       aqua |-> Or(Get(Colors(p), 6), "#689d6a"),
       orange |-> blend(red, yellow, OrangeBlend)]

\* l.218
IsDark(background) ==
  FLess(relative_luminance(background), DARK_BACKGROUND_LUMINANCE_THRESHOLD)

\* l.219-231
boost(c) == boost_saturation_preserve_luminance(c, DARK_THEME_SATURATION_BOOST)

BoostAll(acc) == Accents([name \in AccentNames |-> boost(acc[name])])

\* l.234-237
_clamp_lum(c) ==
  IF FLess(DARK_ACCENT_MAX_LUMINANCE, relative_luminance(c))
  THEN scale_luminance(c, DARK_ACCENT_MAX_LUMINANCE) ELSE c

\* l.239-245
ClampAll(acc) == Accents([name \in AccentNames |-> _clamp_lum(acc[name])])

\* l.252-253: max(3.5 * (bg_lum + 0.05) - 0.05, 0.15)
ContrastTarget(bg_lum) ==
  FMax(FSub(FMul(DARK_ACCENT_MIN_CONTRAST, FAdd(bg_lum, ContrastOffset)), ContrastOffset),
       ContrastTargetFloor)

\* l.250-255
_ensure_contrast(c, background) ==
  IF FLess(contrast_ratio(c, background), DARK_ACCENT_MIN_CONTRAST)
  THEN scale_luminance(c, ContrastTarget(relative_luminance(background))) ELSE c

\* variant: orange blended again from the corrected red and yellow
ContrastAllReblend(acc, background) ==
  Accents([name \in AccentNames |->
             IF name = "orange"
             THEN blend(_ensure_contrast(acc.red, background),
                        _ensure_contrast(acc.yellow, background), OrangeBlend)
             ELSE _ensure_contrast(acc[name], background)])

\* l.257-263
ContrastAll(acc, background) ==
  Accents([name \in AccentNames |-> _ensure_contrast(acc[name], background)])

\* l.210-263
\* boost, then clamp, then contrast, each applied to the values the one before produced
CorrectDark(acc, background) ==
  CHOOSE r \in {ContrastAll(clamped, background) :
                  clamped \in {ClampAll(boosted) : boosted \in {BoostAll(acc)}}} : TRUE

Correct(acc, background) == IF IsDark(background) THEN CorrectDark(acc, background) ELSE acc

\* l.267-275: the text colour on each surface
OnSurfaces(surfaces, contrast_candidates) ==
  [surface \in surfaces |-> best_contrast_text(surface, contrast_candidates)]

\* l.277-297
PaletteWith(b, acc, on) ==
  [color_fg0 |-> b.foreground,
   color_bg1 |-> b.background,
   color_bg3 |-> b.selection_background,
   color_on_bg1 |-> on[b.background],
   color_on_bg3 |-> on[b.selection_background],
   color_on_blue |-> on[acc.blue],
   color_on_aqua |-> on[acc.aqua],
   color_on_green |-> on[acc.green],
   color_on_orange |-> on[acc.orange],
   color_on_purple |-> on[acc.purple],
   color_on_red |-> on[acc.red],
   color_on_yellow |-> on[acc.yellow],
   color_blue |-> acc.blue,
   color_aqua |-> acc.aqua,
   color_green |-> acc.green,
   color_orange |-> acc.orange,
   color_purple |-> acc.purple,
   color_red |-> acc.red,
   color_yellow |-> acc.yellow]

\* l.265-297
PaletteOf(b, acc) ==
  PaletteWith(b, acc,
    OnSurfaces({b.background, b.selection_background, acc.blue, acc.aqua, acc.green,
                acc.orange, acc.purple, acc.red, acc.yellow},
               <<b.foreground, b.background, "#ffffff", "#000000">>))

build_starship_palette(p) ==
  CHOOSE r \in UNION {{PaletteOf(b, acc) : acc \in {Correct(ResolveAccents(p), b.background)}} :
                       b \in {ResolveBase(p)}} : TRUE
--------------------------------------------------------------------------
(* ensure_palette_name and update_palette_section *)

PALETTE_NAME == "ghostty_dynamic"

StartsWith(s, prefix) == Len(s) >= Len(prefix) /\ SubSeq(s, 1, Len(prefix)) = prefix

EndsWith(s, suffix) ==
  Len(s) >= Len(suffix) /\ SubSeq(s, Len(s) - Len(suffix) + 1, Len(s)) = suffix

IsBlank(s) == Strip(s) = ""

\* the length of the longest prefix of s holding no quote character
NonQuoteLen(s) == Span(s, QuoteChars, FALSE)

\* \s*=\s*(['"])([^'"]*)(['"])\s*$ on the rest of a line: <<matched, the quoted text>>
MatchQuotedValue(s) ==
  LET afterKey == LStrip(s)
      afterEq == LStrip(Rest(afterKey, 1))
      body == Rest(afterEq, 1)
      n == NonQuoteLen(body)
  IN  IF /\ StartsWith(afterKey, "=")
         /\ Len(afterEq) >= 1 /\ InClass(Char(afterEq, 1), QuoteChars)
         /\ n < Len(body)
         /\ IsBlank(Rest(body, n + 1))
      THEN <<TRUE, SubSeq(body, 1, n)>>
      ELSE <<FALSE, "">>

\* the number of characters that ^palette\s*=\s*['"][^'"]+['"]\s*$ (re.MULTILINE)
\* matches at the start of s, or -1.  Nothing but the last \s* has a choice:
\* it runs to the end of the text, or else stops before the last "\n" it
\* could take, where $ holds.
PaletteMatchLen(s) ==
  LET afterName == Rest(s, 7)
      w1 == PrefixLen(afterName, SpaceChars)
      afterEq == Rest(afterName, w1 + 1)
      w2 == PrefixLen(afterEq, SpaceChars)
      body == Rest(afterEq, w2 + 1)
      n == NonQuoteLen(body)
      tail == Rest(body, n + 1)
      w3 == PrefixLen(tail, SpaceChars)
      stops == {j \in 0..(w3 - 1) : Char(tail, j + 1) = "\n"}
      upTo == 7 + w1 + 1 + w2 + 1 + n + 1
  IN  IF /\ StartsWith(s, "palette")
         /\ Len(afterName) > w1 /\ Char(afterName, w1 + 1) = "="
         /\ Len(afterEq) > w2 /\ InClass(Char(afterEq, w2 + 1), QuoteChars)
         /\ n >= 1 /\ n < Len(body)
      THEN IF w3 = Len(tail) THEN upTo + w3
           ELSE IF stops # {} THEN upTo + (CHOOSE j \in stops : \A h \in stops : h <= j)
           ELSE -1
      ELSE -1

\* the pattern matches at position p of text, the start of a line
PaletteAt(text, p) ==
  (p = 1 \/ Char(text, p - 1) = "\n") /\ PaletteMatchLen(Rest(text, p - 1)) >= 0

\* the position p when it lies within the n characters, else 0
Within(p, n) == IF p > n THEN 0 ELSE p

\* pattern.search: the first place where the pattern matches; 0 when there is none
PaletteSearch(text) ==
  Within(CHOOSE p \in 1..(Len(text) + 1) :
           /\ p > Len(text) \/ PaletteAt(text, p)
           /\ \A q \in 1..(p - 1) : ~PaletteAt(text, q),
         Len(text))

\* line.strip().startswith("[")
OpensSection(line) == StartsWith(Strip(line), "[")

\* l.306-313: the index, from 0, of the first line that starts a section
InsertAt(lines) ==
  (CHOOSE n \in 1..(Len(lines) + 1) :
     /\ n > Len(lines) \/ OpensSection(lines[n])
     /\ \A i \in 1..(n - 1) : ~OpensSection(lines[i])) - 1

\* lines[:n] + items + lines[n:]
Splice(lines, n, items) == SubSeq(lines, 1, n) \o items \o SubSeq(lines, n + 1, Len(lines))

ensure_palette_name(config_text) ==
  LET palette_line == "palette = '" \o PALETTE_NAME \o "'"
      at == PaletteSearch(config_text)
      len == PaletteMatchLen(Rest(config_text, at - 1))
      lines == SplitLines(config_text)
  IN  IF at > 0
      THEN SubSeq(config_text, 1, at - 1) \o palette_line \o Rest(config_text, at - 1 + len)
      ELSE Join(Splice(lines, InsertAt(lines), <<palette_line, "">>)) \o "\n"

\* values is a dict in insertion order: a sequence of <<key, value>>
HasKey(values, key) == \E i \in 1..Len(values) : values[i][1] = key

ValueOf(values, key) == values[CHOOSE i \in 1..Len(values) : values[i][1] = key][2]

\* f"{indent}{key} = '{value}'"
AssignLine(indent, key, value) == indent \o key \o " = '" \o value \o "'"

\* f"{key} = '{value}'" for each of the items
AssignLines(items) ==
  SubSeq([i \in 1..Len(items) |-> AssignLine("", items[i][1], items[i][2])], 1, Len(items))

\* the lines appended for the keys not in seen, l.334-336, l.361-363, l.369-370
MissingLines(values, seen) ==
  LET Missing(item) == item[1] \notin seen
  IN  AssignLines(SelectSeq(values, Missing))

\* ^(\s*)([A-Za-z0-9_]+)\s*=\s*(['"])([^'"]*)(['"])\s*$: <<matched, indent, key>>
KeyLineMatch(line) ==
  LET n == PrefixLen(line, SpaceChars)
      body == Rest(line, n)
      k == PrefixLen(body, WordChars)
  IN  IF k >= 1 /\ MatchQuotedValue(Rest(body, k))[1]
      THEN <<TRUE, SubSeq(line, 1, n), SubSeq(body, 1, k)>>
      ELSE <<FALSE, "", "">>

SectionHeader == "[palettes." \o PALETTE_NAME \o "]"

\* stripped.startswith("[") and stripped.endswith("]")
IsHeaderLine(line) == StartsWith(Strip(line), "[") /\ EndsWith(Strip(line), "]")

\* l.324-327
UpdStart == [output |-> <<>>, in_section |-> FALSE, found_section |-> FALSE, seen |-> {}]

\* variant: lines copied through are stripped
UpdBodyStripping(u, line, values) ==
  LET flushed == IF IsHeaderLine(line) /\ u.in_section
                 THEN [u EXCEPT !.output = u.output \o MissingLines(values, u.seen),
                                !.in_section = FALSE]
                 ELSE u
      m == KeyLineMatch(line)
  IN  IF IsHeaderLine(line) /\ Strip(line) = SectionHeader
      THEN [flushed EXCEPT !.found_section = TRUE, !.in_section = TRUE,
                           !.output = Append(flushed.output, line)]
      ELSE IF flushed.in_section /\ m[1] /\ HasKey(values, m[3])
      THEN [flushed EXCEPT
              !.output = Append(flushed.output, AssignLine(m[2], m[3], ValueOf(values, m[3]))),
              !.seen = flushed.seen \cup {m[3]}]
      ELSE [flushed EXCEPT !.output = Append(flushed.output, Strip(line))]

\* one pass of the loop body, l.330-358
UpdBody(u, line, values) ==
  LET flushed == IF IsHeaderLine(line) /\ u.in_section
                 THEN [u EXCEPT !.output = u.output \o MissingLines(values, u.seen),
                                !.in_section = FALSE]
                 ELSE u
      m == KeyLineMatch(line)
  IN  IF IsHeaderLine(line) /\ Strip(line) = SectionHeader
      THEN [flushed EXCEPT !.found_section = TRUE, !.in_section = TRUE,
                           !.output = Append(flushed.output, line)]
      ELSE IF flushed.in_section /\ m[1] /\ HasKey(values, m[3])
      THEN [flushed EXCEPT
              !.output = Append(flushed.output, AssignLine(m[2], m[3], ValueOf(values, m[3]))),
              !.seen = flushed.seen \cup {m[3]}]
      ELSE [flushed EXCEPT !.output = Append(flushed.output, line)]

\* l.360-370: the lines of the returned text
UpdFinish(u, values) ==
  LET closed == IF u.in_section THEN u.output \o MissingLines(values, u.seen) ELSE u.output
      spaced == IF closed # <<>> /\ ~IsBlank(closed[Len(closed)])
                THEN Append(closed, "") ELSE closed
  IN  IF u.found_section THEN closed
      ELSE Append(spaced, SectionHeader) \o MissingLines(values, {})

\* the loop of l.329-358 over lines: over their first half, then over the
\* others; the result of the first part is a value before the second starts
RECURSIVE UpdLoop(_, _, _)
UpdLoop(u, lines, values) ==
  IF Len(lines) = 0 THEN u
  ELSE IF Len(lines) = 1 THEN UpdBody(u, lines[1], values)
  ELSE CHOOSE r \in {UpdLoop(t, SubSeq(lines, Len(lines) \div 2 + 1, Len(lines)), values) :
                      t \in {UpdLoop(u, SubSeq(lines, 1, Len(lines) \div 2), values)}} : TRUE

update_palette_section(config_text, values) ==
  Join(UpdFinish(UpdLoop(UpdStart, SplitLines(config_text), values), values)) \o "\n"

\* the palette's keys in the order of the returned dict, l.277-297
PaletteKeys ==
  << "color_fg0", "color_bg1", "color_bg3", "color_on_bg1", "color_on_bg3", "color_on_blue",
     "color_on_aqua", "color_on_green", "color_on_orange", "color_on_purple", "color_on_red",
     "color_on_yellow", "color_blue", "color_aqua", "color_green", "color_orange",
     "color_purple", "color_red", "color_yellow" >>

\* dict.items()
Items(pal) == [i \in 1..Len(PaletteKeys) |-> <<PaletteKeys[i], pal[PaletteKeys[i]]>>]

--------------------------------------------------------------------------
(* Specification Spec: load_ghostty_config, then build_starship_palette *)

MaxThemeLines == 2

\* Pieces of text the theme command may print, each closed by its line break.
ThemeLinePool ==
  { "background = #1d2021\n",
    "background = #fbf1c7\n",
    "palette = 0=#707070\n",
    "palette = 1=#cc241d\n",
    "palette = 3 = #FFFF00\n",
    "palette = 2=#12345\n",
    "palette = 7=#ebdbb2\n",
    "palette = 8=#928374\n",
    "foreground = #zzzzzz\n",
    "foreground=#A89984\n",
    "  selection-background = #504945 \n",
    "# background = #ffffff\nnot a setting\n",
    "palette= 6=#81b5efbackground =#000000" }

SeqsUpTo(S, n) == UNION {[1..k -> S] : k \in 0..n}

\* "".join(pieces)
RECURSIVE Concat(_)
Concat(pieces) == IF Len(pieces) = 0 THEN "" ELSE pieces[1] \o Concat(Tail(pieces))

TextsUpTo(S, n) == {Concat(pieces) : pieces \in SeqsUpTo(S, n)}

Idle == [status |-> "idle"]

\* build_starship_palette not entered
NoBuild ==
  /\ parsed = EmptyDict
  /\ base = EmptyDict
  /\ pre = EmptyDict
  /\ accents = EmptyDict
  /\ palette = EmptyDict

Init ==
  /\ mode = "palette"
  /\ pc = "load"
  /\ stdout \in TextsUpTo(ThemeLinePool, MaxThemeLines)
  /\ NoBuild
  /\ bst = Idle
  /\ bct = Idle
  /\ ups = Idle
  /\ mn = Idle

\* l.158-196, the command having printed stdout
Load ==
  /\ mode = "palette" /\ pc = "load"
  /\ parsed' = load_ghostty_config([status |-> "ok", stdout |-> stdout])
  /\ pc' = "build"
  /\ UNCHANGED <<mode, stdout, base, pre, accents, palette, bst, bct, ups, mn>>

\* l.200-216; the command's output is out of scope from here on
Resolve ==
  /\ mode = "palette" /\ pc = "build"
  /\ base' = ResolveBase(parsed)
  /\ pre' = ResolveAccents(parsed)
  /\ accents' = ResolveAccents(parsed)
  /\ stdout' = ""
  /\ pc' = "resolved"
  /\ UNCHANGED <<mode, parsed, palette, bst, bct, ups, mn>>

\* l.218 true, l.219-231
Boost ==
  /\ mode = "palette" /\ pc = "resolved"
  /\ IsDark(base.background)
  /\ accents' = BoostAll(accents)
  /\ pc' = "boosted"
  /\ UNCHANGED <<mode, stdout, parsed, base, pre, palette, bst, bct, ups, mn>>

\* variant: a light theme is boosted all the same
LightBoosting ==
  /\ mode = "palette" /\ pc = "resolved"
  /\ ~IsDark(base.background)
  /\ accents' = BoostAll(accents)
  /\ pc' = "corrected"
  /\ UNCHANGED <<mode, stdout, parsed, base, pre, palette, bst, bct, ups, mn>>

\* l.218 false
Light ==
  /\ mode = "palette" /\ pc = "resolved"
  /\ ~IsDark(base.background)
  /\ pc' = "corrected"
  /\ UNCHANGED <<mode, stdout, parsed, base, pre, accents, palette, bst, bct, ups, mn>>

\* l.239-245
Clamp ==
  /\ mode = "palette" /\ pc = "boosted"
  /\ accents' = ClampAll(accents)
  /\ pc' = "clamped"
  /\ UNCHANGED <<mode, stdout, parsed, base, pre, palette, bst, bct, ups, mn>>

\* l.248-263
EnsureContrast ==
  /\ mode = "palette" /\ pc = "clamped"
  /\ accents' = ContrastAll(accents, base.background)
  /\ pc' = "corrected"
  /\ UNCHANGED <<mode, stdout, parsed, base, pre, palette, bst, bct, ups, mn>>

\* l.265-297
SelectText ==
  /\ mode = "palette" /\ pc = "corrected"
  /\ palette' = PaletteOf(base, accents)
  /\ pc' = "done"
  /\ UNCHANGED <<mode, stdout, parsed, base, pre, accents, bst, bct, ups, mn>>

Next == Load \/ Resolve \/ Boost \/ Light \/ Clamp \/ EnsureContrast \/ SelectText

Spec == Init /\ [][Next]_vars

--------------------------------------------------------------------------
(* Specification SpecBoost: boost_saturation_preserve_luminance, pass by pass *)

BoostColorPool ==
  { "#cc241d", "#d79921", "#458588", "#fe8019", "#808080", "#000000", "#ffffff", "#0000ff",
    "#fffffe", "#3c3836", "#906ee2", "#0b6b17", "#81b5ef" }

\* 0.5, 1.0, 1.35 and 2.0
BoostFactorPool ==
  { [s |-> 0, e |-> -53, m |-> <<0, 0, 0, 1024>>],
    FOne,
    DARK_THEME_SATURATION_BOOST,
    FTwo }

InitBoost ==
  /\ mode = "boost"
  /\ pc = "entry"
  /\ \E color \in BoostColorPool, factor \in BoostFactorPool :
       bst = [color |-> color, factor |-> factor, i |-> 0, low |-> FZero, high |-> FZero,
              result |-> NoneVal]
  /\ stdout = ""
  /\ NoBuild
  /\ bct = Idle
  /\ ups = Idle
  /\ mn = Idle

\* l.91-92
BoostReturnEarly ==
  /\ mode = "boost" /\ pc = "entry"
  /\ FLeq(bst.factor, FOne)
  /\ bst' = [bst EXCEPT !.result = bst.color]
  /\ pc' = "done"
  /\ UNCHANGED <<mode, stdout, parsed, base, pre, accents, palette, bct, ups, mn>>

\* l.94-108
BoostEnter ==
  /\ mode = "boost" /\ pc = "entry"
  /\ FLess(FOne, bst.factor)
  /\ bst' = [bst EXCEPT !.low = SearchStart(bst.factor).low,
                        !.high = SearchStart(bst.factor).high]
  /\ pc' = "search"
  /\ UNCHANGED <<mode, stdout, parsed, base, pre, accents, palette, bct, ups, mn>>

\* the loop's variables after a pass that left s
AfterPass(b, s) == [b EXCEPT !.low = s.low, !.high = s.high, !.i = b.i + 1]

\* l.109-115, one pass
BoostIterate ==
  /\ mode = "boost" /\ pc = "search"
  /\ bst.i < SearchIterations
  /\ bst' = AfterPass(bst, SearchStep(BoostLocals(bst.color), [low |-> bst.low, high |-> bst.high]))
  /\ UNCHANGED <<mode, pc, stdout, parsed, base, pre, accents, palette, bct, ups, mn>>

\* l.117-124
BoostFinish ==
  /\ mode = "boost" /\ pc = "search"
  /\ bst.i = SearchIterations
  /\ bst' = [bst EXCEPT !.result = BoostResult(BoostLocals(bst.color), bst.low)]
  /\ pc' = "done"
  /\ UNCHANGED <<mode, stdout, parsed, base, pre, accents, palette, bct, ups, mn>>

NextBoost == BoostReturnEarly \/ BoostEnter \/ BoostIterate \/ BoostFinish

SpecBoost == InitBoost /\ [][NextBoost]_vars

--------------------------------------------------------------------------
(* Specification SpecBest: best_contrast_text *)

MaxCandidates == 3

\* #a4f67d, lighter than the surface #41875f, and #302924, darker than it, have
\* the same contrast against it: (la + 0.05) / (ls + 0.05) and
\* (ls + 0.05) / (ld + 0.05) round to the same double, 3.3068934890117982
SurfacePool == {"#000000", "#ffffff", "#3c3836", "#41875f"}

CandidatePool ==
  {"#ffffff", "#000000", " #A4F67D ", "#fff", "#3c3836", "#a4f67d", "#302924"}

InitBest ==
  /\ mode = "best"
  /\ pc = "entry"
  /\ \E background \in SurfacePool, candidates \in SeqsUpTo(CandidatePool, MaxCandidates) :
       bct = [background |-> background, candidates |-> candidates, unique |-> <<>>,
              result |-> NoneVal]
  /\ stdout = ""
  /\ NoBuild
  /\ bst = Idle
  /\ ups = Idle
  /\ mn = Idle

\* l.78-82
BestCollect ==
  /\ mode = "best" /\ pc = "entry"
  /\ bct' = [bct EXCEPT !.unique = UniqueCandidates(bct.candidates, 1, <<>>)]
  /\ pc' = "collected"
  /\ UNCHANGED <<mode, stdout, parsed, base, pre, accents, palette, bst, ups, mn>>

\* l.84-85
BestDefault ==
  /\ mode = "best" /\ pc = "collected"
  /\ bct.unique = <<>>
  /\ bct' = [bct EXCEPT !.result = "#ffffff"]
  /\ pc' = "done"
  /\ UNCHANGED <<mode, stdout, parsed, base, pre, accents, palette, bst, ups, mn>>

\* l.87
BestMax ==
  /\ mode = "best" /\ pc = "collected"
  /\ bct.unique # <<>>
  /\ bct' = [bct EXCEPT !.result = MaxByContrast(bct.background, bct.unique, 2, bct.unique[1])]
  /\ pc' = "done"
  /\ UNCHANGED <<mode, stdout, parsed, base, pre, accents, palette, bst, ups, mn>>

NextBest == BestCollect \/ BestDefault \/ BestMax

SpecBest == InitBest /\ [][NextBest]_vars

--------------------------------------------------------------------------
(* Specification SpecUpdate: update_palette_section, line by line *)

MaxDocLines == 3

\* Pieces of a document; each but the last listed ends with a line break.
DocLinePool ==
  { "[palettes.ghostty_dynamic]\n",
    "[character]\r\n",
    "\tcolor_fg0 = \"#222222\"  \n",
    "color_red = '#111111' # old\n",
    "format = '$all'\n",
    "\n",
    "color_red ='#111111'",
    "# end" }

UpdValues == << <<"color_red", "#ff1800">>, <<"color_fg0", "#fbf1c7">> >>

InitUpdate ==
  /\ mode = "update"
  /\ pc = "entry"
  /\ \E text \in TextsUpTo(DocLinePool, MaxDocLines) :
       ups = [text |-> text, lines |-> <<>>, values |-> UpdValues, i |-> 1, u |-> UpdStart,
              result |-> NoneVal]
  /\ stdout = ""
  /\ NoBuild
  /\ bst = Idle
  /\ bct = Idle
  /\ mn = Idle

\* l.321-327
UpdEnter ==
  /\ mode = "update" /\ pc = "entry"
  /\ ups' = [ups EXCEPT !.lines = SplitLines(ups.text)]
  /\ pc' = "loop"
  /\ UNCHANGED <<mode, stdout, parsed, base, pre, accents, palette, bst, bct, mn>>

\* l.329-358, one line
UpdIterate ==
  /\ mode = "update" /\ pc = "loop"
  /\ ups.i <= Len(ups.lines)
  /\ ups' = [ups EXCEPT !.u = UpdBody(ups.u, ups.lines[ups.i], ups.values), !.i = ups.i + 1]
  /\ UNCHANGED <<mode, pc, stdout, parsed, base, pre, accents, palette, bst, bct, mn>>

\* l.360-372
UpdReturn ==
  /\ mode = "update" /\ pc = "loop"
  /\ ups.i > Len(ups.lines)
  /\ ups' = [ups EXCEPT !.result = Join(UpdFinish(ups.u, ups.values)) \o "\n"]
  /\ pc' = "done"
  /\ UNCHANGED <<mode, stdout, parsed, base, pre, accents, palette, bst, bct, mn>>

NextUpdate == UpdEnter \/ UpdIterate \/ UpdReturn

SpecUpdate == InitUpdate /\ [][NextUpdate]_vars

--------------------------------------------------------------------------
(* Specification SpecMain: main *)

MaxTemplateLines == 2

TemplateLinePool ==
  { "format = '$all'\npalette = 'gruvbox_dark'\n",
    "[palettes.ghostty_dynamic]\ncolor_red = '#111111'\n",
    "palette = \"x\"  \n\n",
    "# end" }

\* what running the theme command can come to
CommandOutcomes ==
  { [status |-> "CalledProcessError", stdout |-> ""],
    [status |-> "FileNotFoundError", stdout |-> ""],
    [status |-> "PermissionError", stdout |-> ""],
    [status |-> "ok", stdout |-> ""],
    [status |-> "ok", stdout |-> "background = #fbf1c7\n"] }

\* a file: absent, or holding a text
Absent == [exists |-> FALSE, text |-> ""]
File(text) == [exists |-> TRUE, text |-> text]

InitMain ==
  /\ mode = "main"
  /\ pc = "start"
  /\ \E template \in {Absent} \cup {File(t) : t \in TextsUpTo(TemplateLinePool, MaxTemplateLines)},
        outcome \in CommandOutcomes :
       \E file \in {Absent, template, File("# stale\n")} :
         mn = [template |-> template, outcome |-> outcome, rendered |-> NoneVal,
               file |-> file, wrote |-> FALSE]
  /\ stdout = ""
  /\ NoBuild
  /\ bst = Idle
  /\ bct = Idle
  /\ ups = Idle

\* l.402: there is no template to read, and main ends with the exception
MainNoTemplate ==
  /\ mode = "main" /\ pc = "start"
  /\ ~mn.template.exists
  /\ pc' = "raised"
  /\ UNCHANGED <<mode, stdout, parsed, base, pre, accents, palette, bst, bct, ups, mn>>

\* l.402-405
MainLoad ==
  /\ mode = "main" /\ pc = "start"
  /\ mn.template.exists
  /\ ~IsRaised(load_ghostty_config(mn.outcome))
  /\ parsed' = load_ghostty_config(mn.outcome)
  /\ mn' = [mn EXCEPT !.rendered = mn.template.text]
  /\ pc' = "loaded"
  /\ UNCHANGED <<mode, stdout, base, pre, accents, palette, bst, bct, ups>>

\* l.402-405: an exception that load_ghostty_config does not catch ends main
MainRaise ==
  /\ mode = "main" /\ pc = "start"
  /\ mn.template.exists
  /\ IsRaised(load_ghostty_config(mn.outcome))
  /\ mn' = [mn EXCEPT !.rendered = mn.template.text]
  /\ pc' = "raised"
  /\ UNCHANGED <<mode, stdout, parsed, base, pre, accents, palette, bst, bct, ups>>

\* l.406-408
MainRender ==
  /\ mode = "main" /\ pc = "loaded"
  /\ parsed # EmptyDict
  /\ palette' = build_starship_palette(parsed)
  /\ mn' = [mn EXCEPT !.rendered =
              update_palette_section(ensure_palette_name(mn.rendered), Items(palette'))]
  /\ pc' = "rendered"
  /\ UNCHANGED <<mode, stdout, parsed, base, pre, accents, bst, bct, ups>>

ReadyToWrite == pc = "rendered" \/ (pc = "loaded" /\ parsed = EmptyDict)

\* l.410, l.375-379: the file is missing or differs
MainWrite ==
  /\ mode = "main" /\ ReadyToWrite
  /\ mn.file # File(mn.rendered)
  /\ mn' = [mn EXCEPT !.file = File(mn.rendered), !.wrote = TRUE]
  /\ pc' = "done"
  /\ UNCHANGED <<mode, stdout, parsed, base, pre, accents, palette, bst, bct, ups>>

\* l.410, l.375-378: the file already holds the content
MainKeep ==
  /\ mode = "main" /\ ReadyToWrite
  /\ mn.file = File(mn.rendered)
  /\ pc' = "done"
  /\ UNCHANGED <<mode, stdout, parsed, base, pre, accents, palette, bst, bct, ups, mn>>

NextMain == MainNoTemplate \/ MainLoad \/ MainRaise \/ MainRender \/ MainWrite \/ MainKeep

SpecMain == InitMain /\ [][NextMain]_vars
--------------------------------------------------------------------------
(* Claims about the palette derivation, checked under Spec *)

PaletteKeySet == {PaletteKeys[i] : i \in 1..Len(PaletteKeys)}

\* "#" followed by six lowercase hex digits
IsCanonicalHex(v) ==
  /\ Len(v) = 7
  /\ Char(v, 1) = "#"
  /\ \A i \in 2..7 : InClass(Char(v, i), LowerHexDigits)

\* palette slot i as the theme gave it, else the constant
SlotOr(i, constant) ==
  IF "palette" \in DOMAIN parsed /\ i \in DOMAIN parsed.palette THEN parsed.palette[i]
  ELSE constant

Built == mode = "palette" /\ pc = "done"

BackgroundIsDark ==
  FLess(relative_luminance(base.background), DARK_BACKGROUND_LUMINANCE_THRESHOLD)

\* C1: for every theme load_ghostty_config can produce, build_starship_palette
\* returns a mapping with exactly the 19 fixed keys, each value a canonical
\* lowercase "#" + 6-hex-digit string that normalize_hex returns unchanged.
C1_PaletteShape ==
  Built =>
    /\ DOMAIN palette = PaletteKeySet
    /\ Cardinality(DOMAIN palette) = 19
    /\ \A k \in DOMAIN palette :
         IsCanonicalHex(palette[k]) /\ normalize_hex(palette[k]) = palette[k]

\* a corrected dark theme whose inputs came partly from the theme, partly from fallbacks
C1_Witness ==
  /\ Built
  /\ DOMAIN parsed = {"palette", "background"}
  /\ DOMAIN parsed.palette = {3}
  /\ palette.color_yellow # "#ffff00"
  /\ palette.color_red # "#cc241d"

\* C2: when the background's luminance is at or above the dark threshold, the
\* seven accents returned are the pre-correction values: the six primaries are
\* the theme's colours (or the fallbacks) and orange is their red/yellow midpoint.
C2_LightPassThrough ==
  (Built /\ ~BackgroundIsDark) =>
    /\ palette.color_red = SlotOr(1, "#cc241d")
    /\ palette.color_green = SlotOr(2, "#98971a")
    /\ palette.color_yellow = SlotOr(3, "#d79921")
    /\ palette.color_blue = SlotOr(4, "#458588")
    /\ palette.color_purple = SlotOr(5, "#b16286")
    /\ palette.color_aqua = SlotOr(6, "#689d6a")
    /\ palette.color_orange = blend(SlotOr(1, "#cc241d"), SlotOr(3, "#d79921"), OrangeBlend)

\* a light theme that supplies an accent the dark pipeline would have changed
C2_Witness ==
  /\ Built
  /\ ~BackgroundIsDark
  /\ parsed.background = "#fbf1c7"
  /\ palette.color_yellow = "#ffff00"
  /\ _clamp_lum(palette.color_yellow) # "#ffff00"
  /\ boost(palette.color_red) # palette.color_red

\* C3 as claimed: in every returned palette, dark or light, orange is the
\* midpoint of the returned red and yellow.
C3_OrangeFromFinal ==
  Built => palette.color_orange = blend(palette.color_red, palette.color_yellow, OrangeBlend)

\* boost, clamp and contrast applied to one accent
CorrectOne(c, background) ==
  CHOOSE r \in {_ensure_contrast(clamped, background) :
                  clamped \in {_clamp_lum(boosted) : boosted \in {boost(c)}}} : TRUE

\* C3 amended: orange is the midpoint of the red and yellow as they were before
\* correction; on a dark background that midpoint is then boosted, clamped and
\* contrast-corrected on its own like any other accent, and is not blended again.
C3_OrangeFromInputs ==
  Built =>
    palette.color_orange =
      (IF BackgroundIsDark
       THEN CorrectOne(blend(SlotOr(1, "#cc241d"), SlotOr(3, "#d79921"), OrangeBlend), base.background)
       ELSE blend(SlotOr(1, "#cc241d"), SlotOr(3, "#d79921"), OrangeBlend))

\* a dark theme whose orange differs from the midpoint of the corrected red and yellow
C3_Witness ==
  /\ Built
  /\ BackgroundIsDark
  /\ palette.color_orange # blend(palette.color_red, palette.color_yellow, OrangeBlend)
  /\ palette.color_orange # blend(SlotOr(1, "#cc241d"), SlotOr(3, "#d79921"), OrangeBlend)

Corrected == mode = "palette" /\ pc \in {"corrected", "done"}

\* the contrast target of l.252 lies below the 0.15 floor of l.253
TargetFloored ==
  FLess(FSub(FMul(DARK_ACCENT_MIN_CONTRAST,
                  FAdd(relative_luminance(base.background), ContrastOffset)),
             ContrastOffset),
        ContrastTargetFloor)

\* C4 as claimed: on a dark background every accent ends with luminance at most
\* 0.55 and with contrast at least 3.5 against the background, unless the
\* contrast target was floored at 0.15.
C4_DarkAccentsMeetThresholds ==
  (Corrected /\ BackgroundIsDark) =>
    \A n \in AccentNames :
      /\ FLeq(relative_luminance(accents[n]), DARK_ACCENT_MAX_LUMINANCE)
      /\ TargetFloored
         \/ FLeq(DARK_ACCENT_MIN_CONTRAST, contrast_ratio(accents[n], base.background))

\* the documented example: on background #1d2021 the accent #cc241d ends as
\* #e61500, short of 3.5 although its target was above the floor
C4_Witness ==
  /\ Corrected
  /\ BackgroundIsDark
  /\ base.background = "#1d2021"
  /\ pre.red = "#cc241d"
  /\ accents.red = "#e61500"
  /\ ~TargetFloored
  /\ FLess(contrast_ratio(accents.red, base.background), DARK_ACCENT_MIN_CONTRAST)

\* the lines of the command's output
StdoutLines == SplitLines(stdout)

\* the theme text supplies key with a value of the six-hex-digit form
SuppliesColor(line, key) ==
  LET kv == KEY_VALUE_RE(Strip(line))
  IN  kv[1] /\ kv[2] = key /\ HEX_RE(Strip(kv[3]))

\* the theme text supplies palette slot i with a value of the six-hex-digit form
SuppliesSlot(line, i) ==
  LET kv == KEY_VALUE_RE(Strip(line))
      pm == MatchAssign(Strip(kv[3]), Digits)
  IN  kv[1] /\ kv[2] = "palette" /\ pm[1] /\ DecVal(pm[2]) = i /\ HEX_RE(pm[3])

Resolved == mode = "palette" /\ pc \in {"resolved", "boosted", "clamped", "corrected", "done"}

\* C6 as claimed: a slot the theme leaves out, or gives a malformed value, takes
\* a fixed constant that does not depend on the other inputs.
C6_FixedFallbacks ==
  Resolved =>
    /\ "foreground" \notin DOMAIN parsed => base.foreground = "#fbf1c7"
    /\ "background" \notin DOMAIN parsed => base.background = "#3c3836"
    /\ "selection_background" \notin DOMAIN parsed => base.selection_background = "#6c665a"
    /\ pre.red = SlotOr(1, "#cc241d")
    /\ pre.green = SlotOr(2, "#98971a")
    /\ pre.yellow = SlotOr(3, "#d79921")
    /\ pre.blue = SlotOr(4, "#458588")
    /\ pre.purple = SlotOr(5, "#b16286")
    /\ pre.aqua = SlotOr(6, "#689d6a")

\* C6 amended: a value the theme text does not supply in the six-hex-digit form
\* is absent from the parsed theme.  An absent
\* accent takes its fixed constant.  An absent foreground takes palette slot 7,
\* an absent background palette slot 0, each falling back to its fixed constant;
\* an absent selection background takes palette slot 8, else the blend a quarter
\* of the way from the resolved background to the resolved foreground.
C6_FallbackChain ==
  /\ (mode = "palette" /\ pc = "build") =>
       /\ \A key \in ThemeKeys :
            DashToUnderscore(key) \in DOMAIN parsed =>
              \E i \in 1..Len(StdoutLines) : SuppliesColor(StdoutLines[i], key)
       /\ \A slot \in DOMAIN parsed.palette :
            \E i \in 1..Len(StdoutLines) : SuppliesSlot(StdoutLines[i], slot)
       /\ \A k \in DOMAIN parsed \ {"palette"} : IsCanonicalHex(parsed[k])
       /\ \A slot \in DOMAIN parsed.palette : IsCanonicalHex(parsed.palette[slot])
  /\ Resolved =>
       /\ base.foreground =
            (IF "foreground" \in DOMAIN parsed THEN parsed.foreground ELSE SlotOr(7, "#fbf1c7"))
       /\ base.background =
            (IF "background" \in DOMAIN parsed THEN parsed.background ELSE SlotOr(0, "#3c3836"))
       /\ base.selection_background =
            (IF "selection_background" \in DOMAIN parsed THEN parsed.selection_background
             ELSE SlotOr(8, blend(base.background, base.foreground, SelectionBlend)))
       /\ pre.red = SlotOr(1, "#cc241d")
       /\ pre.green = SlotOr(2, "#98971a")
       /\ pre.yellow = SlotOr(3, "#d79921")
       /\ pre.blue = SlotOr(4, "#458588")
       /\ pre.purple = SlotOr(5, "#b16286")
       /\ pre.aqua = SlotOr(6, "#689d6a")

\* a theme without foreground or selection background, whose palette slot 7 stands in
C6_Witness ==
  /\ Resolved
  /\ DOMAIN parsed = {"palette"}
  /\ DOMAIN parsed.palette = {7}
  /\ base.foreground = "#ebdbb2"
  /\ base.selection_background = "#686155"
  /\ pre.green = "#98971a"

--------------------------------------------------------------------------
(* Claims about the gamut search, checked under SpecBoost *)

Searching == mode = "boost" /\ FLess(FOne, bst.factor) /\ pc \in {"search", "done"}

SearchLocals == BoostLocals(bst.color)

\* 2^n
RECURSIVE TwoTo(_)
TwoTo(n) == IF n = 0 THEN 1 ELSE 2 * TwoTo(n - 1)

\* |x|
FAbs(x) == [x EXCEPT !.s = 0]

\* (factor - 1.0) / 2^n
Tolerance(n) == FDiv(FSub(bst.factor, FOne), FromInt(TwoTo(n)))

\* 2^-52, the spacing of the doubles from 1.0 to 2.0, in which mid is rounded
Spacing == [s |-> 0, e |-> -104, m |-> <<0, 0, 0, 1024>>]

\* scales spread over the search range, and the two ends of the interval
ProbeScales ==
  {FAdd(FOne, FMul(FromInt(j), Tolerance(4))) : j \in 0..16} \cup {bst.low, bst.high}

\* C10: for a factor above 1.0 the search makes exactly 20 passes; throughout,
\* 1.0 <= low <= high <= factor and the transform at low keeps every channel
\* in [0, 1]; each pass halves the interval, so after n passes high - low is
\* (factor - 1.0) / 2^n, to within the rounding of the midpoints; high is the
\* factor or a scale out of gamut, and no in-gamut probe up to the factor
\* exceeds it, so the returned low is the largest in-gamut scale up to that
\* tolerance, and high stays at the factor when the transform there is in gamut.
C10_SearchInvariant ==
  Searching =>
    /\ bst.i \in 0..SearchIterations
    /\ pc = "done" => bst.i = SearchIterations
    /\ FLeq(FOne, bst.low) /\ FLeq(bst.low, bst.high) /\ FLeq(bst.high, bst.factor)
    /\ InGamut(SearchLocals, bst.low)
    /\ FLeq(FAbs(FSub(FSub(bst.high, bst.low), Tolerance(bst.i))), Spacing)
    /\ bst.high = bst.factor \/ ~InGamut(SearchLocals, bst.high)
    /\ InGamut(SearchLocals, bst.factor) => bst.high = bst.factor
    /\ \A k \in ProbeScales :
         (FLeq(k, bst.factor) /\ InGamut(SearchLocals, k)) => FLeq(k, bst.high)
    /\ pc = "done" =>
         bst.result = BoostResult(SearchLocals, bst.low)

\* a finished search that the gamut cut short of the factor
C10_Witness ==
  /\ Searching
  /\ pc = "done"
  /\ bst.i = 20
  /\ FLess(FOne, bst.low)
  /\ FLess(bst.high, bst.factor)
  /\ ~InGamut(SearchLocals, bst.high)
  /\ FLeq(FSub(bst.high, bst.low), Tolerance(20))
  /\ bst.result # bst.color

--------------------------------------------------------------------------
(* Claims about best_contrast_text, checked under SpecBest *)

\* the position of the first candidate that normalises to x
FirstCandidate(x) ==
  CHOOSE j \in 1..Len(bct.candidates) :
    /\ normalize_hex(bct.candidates[j]) = x
    /\ \A h \in 1..(j - 1) : normalize_hex(bct.candidates[h]) # x

BackgroundContrast(c) == contrast_ratio(bct.background, c)

\* C5: the unique list holds the valid candidates, normalised, once each, in
\* the order of their first occurrence; the result is an element of that list
\* whose contrast against the background no element exceeds, and every element
\* before it has strictly less contrast.
C5_FirstMaxOfUnique ==
  (mode = "best" /\ pc \in {"collected", "done"}) =>
    /\ \A i \in 1..Len(bct.unique) :
         /\ bct.unique[i] # NoneVal
         /\ \E j \in 1..Len(bct.candidates) : normalize_hex(bct.candidates[j]) = bct.unique[i]
    /\ \A j \in 1..Len(bct.candidates) :
         normalize_hex(bct.candidates[j]) # NoneVal =>
           InSeq(normalize_hex(bct.candidates[j]), bct.unique)
    /\ \A i \in 1..Len(bct.unique) : \A k \in (i + 1)..Len(bct.unique) :
         /\ bct.unique[i] # bct.unique[k]
         /\ FirstCandidate(bct.unique[i]) < FirstCandidate(bct.unique[k])
    /\ (pc = "done" /\ bct.unique # <<>>) =>
         \E p \in 1..Len(bct.unique) :
           /\ bct.unique[p] = bct.result
           /\ \A q \in 1..Len(bct.unique) :
                ~FLess(BackgroundContrast(bct.result), BackgroundContrast(bct.unique[q]))
           /\ \A q \in 1..(p - 1) :
                FLess(BackgroundContrast(bct.unique[q]), BackgroundContrast(bct.result))

\* three candidates, one of them dropped as a duplicate once normalised; the
\* two kept are distinct colours of equal contrast against the surface, and the
\* one that occurs first is returned
C5_Witness ==
  /\ mode = "best" /\ pc = "done"
  /\ Len(bct.candidates) = 3
  /\ Len(bct.unique) = 2
  /\ normalize_hex(bct.candidates[2]) = normalize_hex(bct.candidates[3])
  /\ bct.candidates[2] # bct.candidates[3]
  /\ bct.unique[1] # bct.unique[2]
  /\ FCmp(BackgroundContrast(bct.unique[1]), BackgroundContrast(bct.unique[2])) = 0
  /\ bct.result = bct.unique[1]

--------------------------------------------------------------------------
(* Claims about update_palette_section, checked under SpecUpdate *)

\* line i of the lines s lies in the dynamic palette's section
InSection(s, i) ==
  \E h \in 1..(i - 1) :
    /\ Strip(s[h]) = SectionHeader
    /\ \A j \in (h + 1)..i : ~IsHeaderLine(s[j])

\* the line assigns to key, whatever the form of its value
AssignsKey(line, key) ==
  LET body == LStrip(line)
  IN  StartsWith(body, key) /\ StartsWith(LStrip(Rest(body, Len(key))), "=")

\* the line is key = 'value' after its indentation
BindsValue(line, key, value) ==
  Rest(line, PrefixLen(line, SpaceChars)) = AssignLine("", key, value)

Updated == mode = "update" /\ pc = "done"

\* the lines of the returned text
ResultLines == SplitLines(ups.result)

\* C8 as claimed: the returned text has the section, and for every key of
\* values the section binds the key to the derived value and holds no line that
\* assigns the key anything else.
C8_EveryKeySet ==
  Updated =>
    /\ \E h \in 1..Len(ResultLines) : Strip(ResultLines[h]) = SectionHeader
    /\ \A v \in 1..Len(ups.values) :
         /\ \E i \in 1..Len(ResultLines) :
              /\ InSection(ResultLines, i)
              /\ BindsValue(ResultLines[i], ups.values[v][1], ups.values[v][2])
         /\ \A i \in 1..Len(ResultLines) :
              (InSection(ResultLines, i) /\ AssignsKey(ResultLines[i], ups.values[v][1]))
                => BindsValue(ResultLines[i], ups.values[v][1], ups.values[v][2])

\* a section whose red line carries a trailing comment: the old value stays and
\* the derived one is appended after it
C8_Witness ==
  /\ Updated
  /\ ups.text = "[palettes.ghostty_dynamic]\ncolor_red = '#111111' # old\n"
  /\ ups.result = "[palettes.ghostty_dynamic]\ncolor_red = '#111111' # old\n"
                   \o "color_red = '#ff1800'\ncolor_fg0 = '#fbf1c7'\n"

\* the line is one the rewriter replaces when it lies in the section: of the
\* quoted key = value form, with a key of values
IsRewritable(line) == KeyLineMatch(line)[1] /\ HasKey(ups.values, KeyLineMatch(line)[3])

\* the lines of s from i on that are outside the section or not rewritable;
\* inside tells whether line i follows the section's header with no header between
RECURSIVE KeptLines(_, _, _)
KeptLines(s, i, inside) ==
  IF i > Len(s) THEN <<>>
  ELSE IF IsHeaderLine(s[i]) THEN <<s[i]>> \o KeptLines(s, i + 1, Strip(s[i]) = SectionHeader)
  ELSE (IF inside /\ IsRewritable(s[i]) THEN <<>> ELSE <<s[i]>>) \o KeptLines(s, i + 1, inside)

HasSection(s) == \E h \in 1..Len(s) : Strip(s[h]) = SectionHeader

\* what is added when the input has no section: a blank separator if needed, and the header
AddedSection(s) ==
  IF HasSection(s) THEN <<>>
  ELSE (IF s # <<>> /\ ~IsBlank(s[Len(s)]) THEN <<"">> ELSE <<>>) \o <<SectionHeader>>

\* C9: every input line outside the section, and every line inside it that is
\* not a key assignment for a derived key, is a line of the returned text,
\* unchanged and in the same order; the only other lines of the returned text
\* are assignments of derived values and, when the section was missing, its
\* header after a blank separator.  Lines are those of splitlines(); the
\* returned text ends each with "\n".
C9_OtherLinesKept ==
  Updated =>
    /\ KeptLines(ResultLines, 1, FALSE)
         = KeptLines(SplitLines(ups.text), 1, FALSE) \o AddedSection(SplitLines(ups.text))
    /\ \A i \in 1..Len(ResultLines) :
         (InSection(ResultLines, i) /\ IsRewritable(ResultLines[i])) =>
           BindsValue(ResultLines[i], KeyLineMatch(ResultLines[i])[3],
                      ValueOf(ups.values, KeyLineMatch(ResultLines[i])[3]))
    /\ ups.result = Join(ResultLines) \o "\n"

\* an oddly spaced line kept outside the section and replaced inside it
C9_Witness ==
  /\ Updated
  /\ ups.text = "\tcolor_fg0 = \"#222222\"  \n[palettes.ghostty_dynamic]\n"
                 \o "\tcolor_fg0 = \"#222222\"  \n"
  /\ ups.result = "\tcolor_fg0 = \"#222222\"  \n[palettes.ghostty_dynamic]\n"
                   \o "\tcolor_fg0 = '#fbf1c7'\ncolor_red = '#ff1800'\n"

--------------------------------------------------------------------------
(* Claims about main, checked under SpecMain *)

\* the command exited non-zero or its executable was not found
CommandFailed == mode = "main" /\ mn.template.exists /\ mn.outcome.status \in Caught

\* C7: when the theme command exits non-zero or is missing, the parsed theme
\* is empty, the palette is never built, the template is never rewritten, and
\* the text that main writes is the template unchanged.
C7_FailureKeepsTemplate ==
  CommandFailed =>
    /\ parsed = EmptyDict
    /\ palette = EmptyDict
    /\ pc \notin {"rendered", "raised"}
    /\ pc # "start" => mn.rendered = mn.template.text
    /\ pc = "done" => mn.file = mn.template

\* a failed command, a template with a palette to rewrite, and a stale file overwritten
C7_Witness ==
  /\ CommandFailed
  /\ pc = "done"
  /\ mn.wrote
  /\ mn.template.text = "[palettes.ghostty_dynamic]\ncolor_red = '#111111'\n"
  /\ mn.file = mn.template
====
